---- MODULE Spec2Model ----
(***************************************************************************)
(* Reverse-mode autodiff of OxidizeML: the thread-local tape engine        *)
(* (crates/oxidize-ml-autodiff, "v1") and the shared-graph engine          *)
(* (crates-v2/oximl-autodiff, "v2"), with the parts of the two tensor      *)
(* libraries their forward recording and backward passes call.             *)
(*                                                                         *)
(* Tensors are records [shape, data] (v1) and [dtype, shape, data] (v2);   *)
(* data is the flat row-major element vector.  Elements are integers: the  *)
(* operations modelled (add, sub, mul, matmul, neg, relu, sum, transpose,  *)
(* mul_scalar, add_scalar) are exact on small integers in f64.  Node ids   *)
(* are 0-based as in the code; a node with id i is nodes[i + 1].           *)
(***************************************************************************)
EXTENDS Integers, Sequences, FiniteSets, TLC

\* ------------------------------------------------------------------ bounds
\* Number of nodes a v1 run on the tapes records (over all its resets).
MaxNodes == 3
\* Longest scalar expression (nodes) a run records.
MaxExpr == 3
\* Longest tape of a run on matrices.
MaxBatch == 4
\* Number of reset_graph calls in a run.
MaxResets == 1
\* Number of Variables the caller still holds after a reset_graph.
MaxStale == 1
\* Number of v2 Graph instances a run uses.
MaxGraphs == 2
\* Total number of nodes a v2 run records (over all its graphs).
MaxNodes2 == 3
\* Number of Graph::backward calls a v2 run makes.
MaxBackward2 == 1
\* Number of threads of a multi-threaded run.
MaxThreads == 2
\* Number of calls each thread of a multi-threaded run makes.
MaxCalls == 3
\* Number of nodes the threads push on the Graph they share.
MaxShared == 3
\* Depth to which a thread nests with_no_grad calls.
MaxNesting == 2
\* Number of nodes a run that reuses a tape records (over its resets).
MaxReuse == 4
\* Number of nodes a v2 run with repeated backward calls records.
MaxTrain == 4
\* Number of Graph::backward calls of such a run.
MaxRuns2 == 2
\* Nodes recorded in a run that may use every Variable method (v1).
MaxOps == 3

\* ------------------------------------------------------- sequence helpers
Idx0(s) == 0 .. (Len(s) - 1)

RECURSIVE SeqSum(_)
SeqSum(s) == IF Len(s) = 0 THEN 0 ELSE Head(s) + SeqSum(Tail(s))

RECURSIVE SeqProd(_)
SeqProd(s) == IF Len(s) = 0 THEN 1 ELSE Head(s) * SeqProd(Tail(s))

\* the same elements in the same order
SameSeq(s, t) == Len(s) = Len(t) /\ \A k \in 1 .. Len(s) : s[k] = t[k]

\* ------------------------------------------------------- numbers (f64)
\* An f64 is modelled by the rational it stands for: a tensor holds integer
\* numerators data[i] over one denominator den > 0, in lowest terms over the
\* whole tensor, so that equal tensors are equal records.  A value that is
\* not rational (exp, ln, tanh away from the points below) and a division by
\* zero (inf, NaN) have no value here: the specifications draw the operands
\* inside the domain Defined.
Abs(x) == IF x < 0 THEN 0 - x ELSE x

RECURSIVE Gcd(_, _)
Gcd(a, b) == IF b = 0 THEN a ELSE Gcd(b, a % b)

RECURSIVE GcdAll(_, _)
GcdAll(s, g) == IF Len(s) = 0 \/ g = 1 THEN g ELSE GcdAll(Tail(s), Gcd(g, Abs(Head(s))))

RECURSIVE IntPow(_, _)
IntPow(x, n) == IF n = 0 THEN 1 ELSE x * IntPow(x, n - 1)

\* one number n / d, d > 0, in lowest terms
Frac(n, d) == LET g == Gcd(Abs(n), d) IN [n |-> n \div g, d |-> d \div g]

RECURSIVE LcmDen(_, _)
LcmDen(fr, l) ==
    IF Len(fr) = 0 THEN l
    ELSE LcmDen(Tail(fr), (l \div Gcd(l, Head(fr).d)) * Head(fr).d)

\* ----------------------------------------------- v1 tensor library (core)
\* Shape::numel: 1 for a 0-d shape, else the product of the dims
ShapeNumel(dims) == IF Len(dims) = 0 THEN 1 ELSE SeqProd(dims)

\* Shape::strides: row-major strides
Strides(dims) == [i \in 1 .. Len(dims) |-> SeqProd(SubSeq(dims, i + 1, Len(dims)))]

\* struct Tensor { data, shape }, the elements being data[i] / den
TensorD(shape, data, den) == [shape |-> shape, data |-> data, den |-> den]

\* a tensor of whole numbers
Tensor(shape, data) == TensorD(shape, data, 1)

\* the tensor of the numbers nums[i] / den, brought to lowest terms
TensorQ(shape, nums, den) ==
    IF den = 1 THEN Tensor(shape, nums)
    ELSE LET g == GcdAll(nums, den)
         IN  TensorD(shape, [i \in 1 .. Len(nums) |-> nums[i] \div g], den \div g)

\* the tensor of the numbers fr[i].n / fr[i].d
FromFractions(shape, fr) ==
    LET l == LcmDen(fr, 1)
    IN  TensorQ(shape, [i \in 1 .. Len(fr) |-> fr[i].n * (l \div fr[i].d)], l)

NoTensor == Tensor(<<>>, <<>>)

TOk(t) == [ok |-> TRUE, err |-> "none", t |-> t]

TErr(e) == [ok |-> FALSE, err |-> e, t |-> NoTensor]

\* Tensor::new on the numbers data[i] / den: the data length must equal the
\* shape's element count
TensorNewQ(data, den, shape) ==
    IF Len(data) # ShapeNumel(shape) THEN TErr("ShapeMismatch")
    ELSE TOk(TensorQ(shape, data, den))

TensorFull(shape, v) == Tensor(shape, [i \in 1 .. ShapeNumel(shape) |-> v])

\* Tensor::full with the value n / d
TensorFullQ(shape, n, d) == TensorQ(shape, [i \in 1 .. ShapeNumel(shape) |-> n], d)

TensorOnes(shape) == TensorFull(shape, 1)

TensorScalar(v) == Tensor(<<>>, <<v>>)

TensorFromSlice(data) == Tensor(<<Len(data)>>, data)

TNumel(t) == Len(t.data)

TNdim(t) == Len(t.shape)

\* a scalar product that drops the factor
TMulScalarDropped(t, s) == t

\* Tensor::mul_scalar with the factor n / d
TMulScalarQ(t, n, d) ==
    TensorQ(t.shape, [i \in 1 .. Len(t.data) |-> t.data[i] * n], t.den * d)

TMulScalar(t, s) == TMulScalarQ(t, s, 1)

TAddScalar(t, s) ==
    TensorQ(t.shape, [i \in 1 .. Len(t.data) |-> t.data[i] + s * t.den], t.den)

TRelu(t) ==
    TensorQ(t.shape, [i \in 1 .. Len(t.data) |-> IF t.data[i] > 0 THEN t.data[i] ELSE 0], t.den)

\* Tensor::sum_all, a number
TSumAll(t) == Frac(SeqSum(t.data), t.den)

\* Tensor::mean_all: sum_all() / numel
TMeanAll(t) == Frac(SeqSum(t.data), t.den * TNumel(t))

\* Tensor::powf with a whole exponent n: x^n, and 1 / x^(-n) when n < 0
TPowf(t, n) ==
    IF n >= 0
    THEN TensorQ(t.shape, [i \in 1 .. Len(t.data) |-> IntPow(t.data[i], n)], IntPow(t.den, n))
    ELSE FromFractions(t.shape,
             [i \in 1 .. Len(t.data) |->
                 LET p == IntPow(t.data[i], 0 - n)
                 IN  IF p > 0 THEN Frac(IntPow(t.den, 0 - n), p)
                     ELSE Frac(0 - IntPow(t.den, 0 - n), 0 - p)])

AllElems(t, v) == \A i \in 1 .. Len(t.data) : t.data[i] = v

NoZero(t) == \A i \in 1 .. Len(t.data) : t.data[i] # 0

\* Tensor::exp, at exp(0) = 1
TExp(t) == IF AllElems(t, 0) THEN TensorOnes(t.shape) ELSE CHOOSE q \in {} : TRUE

\* Tensor::ln, at ln(1) = 0
TLn(t) ==
    IF AllElems(t, 1) /\ t.den = 1 THEN TensorFull(t.shape, 0) ELSE CHOOSE q \in {} : TRUE

\* Tensor::tanh_elem, at tanh(0) = 0
TTanh(t) == IF AllElems(t, 0) THEN TensorFull(t.shape, 0) ELSE CHOOSE q \in {} : TRUE

\* Tensor::sigmoid: 1 / (1 + exp(-x)), at x = 0
TSigmoid(t) ==
    IF AllElems(t, 0) THEN TensorFullQ(t.shape, 1, 2) ELSE CHOOSE q \in {} : TRUE

\* Shape::broadcast_shape: NumPy rule, aligned from the trailing axis
BroadcastShape(a, b) ==
    LET n == IF Len(a) > Len(b) THEN Len(a) ELSE Len(b)
        dim(i) ==
            LET da == IF i < Len(a) THEN a[Len(a) - i] ELSE 1
                db == IF i < Len(b) THEN b[Len(b) - i] ELSE 1
            IN  IF da = db THEN da ELSE IF da = 1 THEN db ELSE IF db = 1 THEN da ELSE 0 - 1
        r == [k \in 1 .. n |-> dim(n - k)]
    IN  IF \E k \in 1 .. n : r[k] < 0
        THEN [ok |-> FALSE, shape |-> <<>>]
        ELSE [ok |-> TRUE, shape |-> r]

\* the closures of add, sub, mul and div on the numbers x / dx and y / dy
ElemOp(op, x, dx, y, dy) ==
    LET gd == Gcd(dx, dy)
        l == (dx \div gd) * dy
        gxy == Gcd(Abs(x), Abs(y))
        g1 == Gcd(Abs(x), dy)
        g2 == Gcd(Abs(y), dx)
    IN  CASE op = "add" -> Frac(x * (l \div dx) + y * (l \div dy), l)
          [] op = "sub" -> Frac(x * (l \div dx) - y * (l \div dy), l)
          [] op = "mul" -> Frac((x \div g1) * (y \div g2), (dx \div g2) * (dy \div g1))
          [] op = "div" /\ y > 0 ->
                 Frac((x \div gxy) * (dy \div gd), (y \div gxy) * (dx \div gd))
          [] op = "div" /\ y < 0 ->
                 Frac(0 - ((x \div gxy) * (dy \div gd)), 0 - ((y \div gxy) * (dx \div gd)))

\* offset into an operand of the element that output position flat reads:
\* axes of size 1 (and missing leading axes) contribute nothing
BroadcastOffset(flat, outDims, dims) ==
    LET ndim == Len(outDims)
        os == Strides(outDims)
        st == Strides(dims)
        off == ndim - Len(dims)
        idx(d) == (flat \div os[d]) % outDims[d]
        term(d) == IF d - off >= 1 /\ dims[d - off] > 1 THEN idx(d) * st[d - off] ELSE 0
    IN  SeqSum([d \in 1 .. ndim |-> term(d)])

\* Tensor::broadcast_binary_op; whole numbers stay whole under add, sub, mul
BroadcastBinaryOp(a, b, op) ==
    IF a.shape = b.shape
    THEN IF op # "div" /\ a.den = 1 /\ b.den = 1
         THEN TOk(Tensor(a.shape,
                    [i \in 1 .. Len(a.data) |->
                        CASE op = "add" -> a.data[i] + b.data[i]
                          [] op = "sub" -> a.data[i] - b.data[i]
                          [] op = "mul" -> a.data[i] * b.data[i]]))
         ELSE TOk(FromFractions(a.shape,
                    [i \in 1 .. Len(a.data) |->
                        ElemOp(op, a.data[i], a.den, b.data[i], b.den)]))
    ELSE LET bs == BroadcastShape(a.shape, b.shape)
         IN  IF ~bs.ok THEN TErr("BroadcastError")
             ELSE TOk(FromFractions(bs.shape,
                      [f \in 1 .. ShapeNumel(bs.shape) |->
                          ElemOp(op, a.data[BroadcastOffset(f - 1, bs.shape, a.shape) + 1], a.den,
                                     b.data[BroadcastOffset(f - 1, bs.shape, b.shape) + 1], b.den)]))

TAdd(a, b) == BroadcastBinaryOp(a, b, "add")

TMul(a, b) == BroadcastBinaryOp(a, b, "mul")

TDiv(a, b) == BroadcastBinaryOp(a, b, "div")

\* Tensor::reshape: same data, new shape, when the element counts agree
TReshape(t, newShape) ==
    IF TNumel(t) # ShapeNumel(newShape) THEN TErr("ShapeMismatch")
    ELSE TOk(TensorD(newShape, t.data, t.den))

\* a transpose that swaps the two sizes and leaves the elements in place
TTransposeShapeOnly(t) ==
    IF TNdim(t) < 2 THEN TErr("InvalidOperation")
    ELSE LET n == TNdim(t)
         IN  TOk(TensorD([k \in 1 .. n |-> IF k = n - 1 THEN t.shape[n]
                                            ELSE IF k = n THEN t.shape[n - 1]
                                            ELSE t.shape[k]], t.data, t.den))

\* Tensor::t: swap the last two axes (each matrix of a batch separately)
TTranspose(t) ==
    IF TNdim(t) < 2 THEN TErr("InvalidOperation")
    ELSE LET n == TNdim(t)
             rows == t.shape[n - 1]
             cols == t.shape[n]
             mat == rows * cols
             shp == [k \in 1 .. n |-> IF k = n - 1 THEN cols ELSE IF k = n THEN rows ELSE t.shape[k]]
             src(p) == LET b == p \div mat
                           j == (p % mat) \div rows
                           i == (p % mat) % rows
                       IN  b * mat + i * cols + j
         IN  TOk(TensorD(shp, [p \in 1 .. Len(t.data) |-> t.data[src(p - 1) + 1]], t.den))

\* Tensor::unsqueeze: insert an axis of size 1
TUnsqueeze(t, axis) ==
    IF axis > Len(t.shape) THEN TErr("InvalidAxis")
    ELSE TOk(TensorD(SubSeq(t.shape, 1, axis) \o <<1>> \o SubSeq(t.shape, axis + 1, Len(t.shape)), t.data, t.den))

\* Tensor::sum_axis: sum over one axis and drop it (a 1-d input gives [1])
TSumAxis(t, axis) ==
    IF axis >= Len(t.shape) THEN TErr("InvalidAxis")
    ELSE LET dims == t.shape
             outer == SeqProd(SubSeq(dims, 1, axis))
             asz == dims[axis + 1]
             inner == SeqProd(SubSeq(dims, axis + 2, Len(dims)))
             rem == SubSeq(dims, 1, axis) \o SubSeq(dims, axis + 2, Len(dims))
             nd == IF Len(rem) = 0 THEN <<1>> ELSE rem
             cell(dst) == LET o == dst \div inner
                              i == dst % inner
                          IN  SeqSum([a \in 1 .. asz |-> t.data[o * asz * inner + (a - 1) * inner + i + 1]])
         IN  TensorNewQ([dst \in 1 .. outer * inner |-> cell(dst - 1)], t.den, nd)

\* Tensor::matmul: [m,k] @ [k,n] on two matrices; with an operand of more
\* dimensions, one product per batch, the batch being the larger of the two
\* products of leading dimensions and an operand with batch 1 being used
\* for every index.  On two matrices both batches are 1 and out_shape is
\* [m,n].  An operand whose batch is neither 1 nor the larger one is indexed
\* past its end: that is a panic (err "panic: index out of bounds"), not an
\* Err value
TMatMul(a, b) ==
    IF TNdim(a) < 2 \/ TNdim(b) < 2 THEN TErr("InvalidOperation")
    ELSE LET m == a.shape[Len(a.shape) - 1]
             k == a.shape[Len(a.shape)]
             k2 == b.shape[Len(b.shape) - 1]
             n == b.shape[Len(b.shape)]
             batch_a == SeqProd(SubSeq(a.shape, 1, Len(a.shape) - 2))
             batch_b == SeqProd(SubSeq(b.shape, 1, Len(b.shape) - 2))
             batch == IF batch_a > batch_b THEN batch_a ELSE batch_b
             cell(p) == LET b_idx == p \div (m * n)
                            i == (p % (m * n)) \div n
                            j == p % n
                            a_off == IF batch_a = 1 THEN 0 ELSE b_idx * m * k
                            b_off == IF batch_b = 1 THEN 0 ELSE b_idx * k * n
                        IN  SeqSum([q \in 1 .. k |->
                                       a.data[a_off + i * k + q] * b.data[b_off + (q - 1) * n + j + 1]])
         IN  IF k # k2 THEN TErr("DimensionMismatch")
             ELSE IF m * n * k > 0 /\ ((batch_a # 1 /\ batch_a < batch)
                                       \/ (batch_b # 1 /\ batch_b < batch))
                  THEN TErr("panic: index out of bounds")
             ELSE TensorNewQ([p \in 1 .. batch * m * n |-> cell(p - 1)], a.den * b.den,
                             (IF batch_a > batch_b THEN SubSeq(a.shape, 1, Len(a.shape) - 2)
                              ELSE SubSeq(b.shape, 1, Len(b.shape) - 2)) \o <<m, n>>)

\* a mask that also lets the gradient through where x = 0
TReluMaskAtZero(t) == Tensor(t.shape, [i \in 1 .. Len(t.data) |-> IF t.data[i] >= 0 THEN 1 ELSE 0])

\* Tensor::apply with the closure of the Relu rule: 1 where x > 0, else 0
TReluMask(t) == Tensor(t.shape, [i \in 1 .. Len(t.data) |-> IF t.data[i] > 0 THEN 1 ELSE 0])

\* ------------------------------------------------------ v1 graph (tape)
NoId == 0 - 1

OpLeaf == [tag |-> "Leaf", a |-> NoId, b |-> NoId, s |-> 0]

Op1(tag, a) == [tag |-> tag, a |-> a, b |-> NoId, s |-> 0]

Op2(tag, a, b) == [tag |-> tag, a |-> a, b |-> b, s |-> 0]

OpS(tag, a, s) == [tag |-> tag, a |-> a, b |-> NoId, s |-> s]

\* operand NodeIds an Op carries
Operands(op) ==
    CASE op.tag = "Leaf" -> {}
      [] op.tag \in {"Add", "Sub", "Mul", "Div", "MatMul"} -> {op.a, op.b}
      [] OTHER -> {op.a}

\* an append that numbers the nodes from 1
AddNodeFromOne(g, op, value, rg) ==
    Append(g, [id |-> Len(g) + 1, op |-> op, shape |-> value.shape,
               value |-> value, requires_grad |-> rg])

\* Graph::add_node: the graph after the append (the id returned is Len(g))
AddNode(g, op, value, rg) ==
    Append(g, [id |-> Len(g), op |-> op, shape |-> value.shape,
               value |-> value, requires_grad |-> rg])

\* Graph::get: indexing panics when the id is out of range
InRange(g, id) == id >= 0 /\ id < Len(g)

Get(g, id) == g[id + 1]

Variable(id, data) == [node_id |-> id, data |-> data]

\* ------------------------------------------- v1 Variable: forward values
\* the tensor computation of each Variable method, on the handles' data
Forward(tag, x, y, s) ==
    CASE tag = "Add" -> TAdd(x, y)
      [] tag = "Sub" -> BroadcastBinaryOp(x, y, "sub")
      [] tag = "Mul" -> TMul(x, y)
      [] tag = "Div" -> TDiv(x, y)
      [] tag = "MatMul" -> TMatMul(x, y)
      [] tag = "Neg" -> TOk(TMulScalar(x, 0 - 1))
      [] tag = "Exp" -> TOk(TExp(x))
      [] tag = "Ln" -> TOk(TLn(x))
      [] tag = "Relu" -> TOk(TRelu(x))
      [] tag = "Sigmoid" -> TOk(TSigmoid(x))
      [] tag = "Tanh" -> TOk(TTanh(x))
      [] tag = "SumAll" -> LET sum == TSumAll(x) IN TOk(TensorQ(<<>>, <<sum.n>>, sum.d))
      [] tag = "MeanAll" -> LET m == TMeanAll(x) IN TOk(TensorQ(<<>>, <<m.n>>, m.d))
      [] tag = "Transpose" -> TTranspose(x)
      [] tag = "Pow" -> TOk(TPowf(x, s))
      [] tag = "MulScalar" -> TOk(TMulScalar(x, s))
      [] tag = "AddScalar" -> TOk(TAddScalar(x, s))

\* the operands on which the result of a method is a rational: a divisor
\* without a zero element, exp and tanh and sigmoid at 0, ln at 1, and a
\* whole exponent whose derivative x^(n-1) is finite as well
Defined(tag, x, y, s) ==
    CASE tag = "Div" -> NoZero(y)
      [] tag \in {"Exp", "Sigmoid", "Tanh"} -> AllElems(x, 0)
      [] tag = "Ln" -> AllElems(x, 1) /\ x.den = 1
      [] tag = "Pow" -> s >= 1 \/ NoZero(x)
      [] OTHER -> TRUE

\* the message of the expect() that unwraps each fallible computation
ExpectMsg(tag) ==
    CASE tag = "Add" -> "add: shape mismatch"
      [] tag = "Sub" -> "sub: shape mismatch"
      [] tag = "Mul" -> "mul: shape mismatch"
      [] tag = "Div" -> "div: shape mismatch"
      [] tag = "MatMul" -> "matmul: shape mismatch"
      [] tag = "Transpose" -> "transpose failed"
      [] OTHER -> "none"

\* ------------------------------------ v1 backward: broadcast reduction
IsScalarShape(shape) == Len(shape) = 0 \/ (Len(shape) = 1 /\ shape[1] = 1)

\* "Sum over leading dimensions that were broadcast": k times sum_axis(0)
RECURSIVE ReduceLeading(_, _)
ReduceLeading(r, k) ==
    IF k = 0 \/ ~r.ok THEN r
    ELSE ReduceLeading(TSumAxis(r.t, 0), k - 1)

\* "Sum over dimensions that are 1 in target but > 1 in grad": the loop over
\* zip(result_shape, target_shape), result_shape read once before the loop
RECURSIVE ReduceAxes(_, _, _, _)
ReduceAxes(r, rs, target, i) ==
    IF ~r.ok \/ i >= Len(rs) \/ i >= Len(target) THEN r
    ELSE IF target[i + 1] = 1 /\ rs[i + 1] > 1
         THEN LET summed == TSumAxis(r.t, i)
                  back == IF summed.ok THEN TUnsqueeze(summed.t, i) ELSE summed
              IN  ReduceAxes(back, rs, target, i + 1)
         ELSE ReduceAxes(r, rs, target, i + 1)

\* no reduction: the gradient is passed on in the shape it came in
ReduceBroadcastSkipped(grad, target) == TOk(grad)

\* reduce_broadcast; ok = FALSE stands for the panic of one of its expect()s.
\* final(t) is the "Final reshape to match target", with the mean-filled
\* replacement when the reshape fails
ReduceBroadcast(grad, target) ==
    IF grad.shape = target THEN TOk(grad)
    ELSE IF IsScalarShape(target)
         THEN LET s == TSumAll(grad) IN TOk(TensorQ(<<>>, <<s.n>>, s.d))
    ELSE LET gn == Len(grad.shape)
             tn == Len(target)
             lead == ReduceLeading(TOk(grad), IF gn > tn THEN gn - tn ELSE 0)
             axes == IF lead.ok THEN ReduceAxes(lead, lead.t.shape, target, 0) ELSE lead
             final(t) ==
                 IF t.shape = target THEN t
                 ELSE LET rr == TReshape(t, target)
                      IN  IF rr.ok THEN rr.t
                          ELSE LET m == TMeanAll(t) IN TensorFullQ(target, m.n, m.d)
         IN  IF axes.ok THEN TOk(final(axes.t)) ELSE axes

\* the gradient table is a function from node ids to tensors
NoGrads == <<>>

HasGrad(gr, id) == id \in DOMAIN gr

\* a merge that overwrites the entry instead of adding to it
EntryMergeOverwrite(gr, id, g) == [ok |-> TRUE, gr |-> (id :> g) @@ gr]

\* HashMap entry().and_modify(existing + grad).or_insert(grad)
EntryMerge(gr, id, g) ==
    IF HasGrad(gr, id)
    THEN LET sum == TAdd(gr[id], g)
         IN  [ok |-> sum.ok, gr |-> IF sum.ok THEN [gr EXCEPT ![id] = sum.t] ELSE gr]
    ELSE [ok |-> TRUE, gr |-> (id :> g) @@ gr]

\* accumulate_grad: reduce to the target shape, then merge into the table
AccumulateGrad(gr, id, incoming, target) ==
    LET red == ReduceBroadcast(incoming, target)
    IN  IF red.ok THEN EntryMerge(gr, id, red.t) ELSE [ok |-> FALSE, gr |-> gr]

\* ------------------------------------------ v1 backward: per-tag rules
Contrib(id, r) == [id |-> id, ok |-> r.ok, g |-> r.t]

\* the gradient contributions of node i for incoming gradient grad, in the
\* order the rule accumulates them; ok = FALSE on a contribution stands for
\* the panic of the expect() that unwraps it
LocalGrads(g, i, grad) ==
    LET op == Get(g, i).op
        a == op.a
        b == op.b
        va == Get(g, a).value
        vb == Get(g, b).value
        vi == Get(g, i).value
        \* Tensor::apply with |x| 1.0 - x
        one_minus(t) ==
            TensorQ(t.shape, [k \in 1 .. Len(t.data) |-> t.den - t.data[k]], t.den)
        \* Tensor::item: the single element v / d of a 1-element tensor
        it == IF Len(grad.data) # 1 THEN [ok |-> FALSE, v |-> 0, d |-> 1]
              ELSE [ok |-> TRUE, v |-> grad.data[1], d |-> grad.den]
    IN  CASE op.tag = "Leaf" -> <<>>
          [] op.tag = "Add" -> <<Contrib(a, TOk(grad)), Contrib(b, TOk(grad))>>
          [] op.tag = "Sub" ->
                <<Contrib(a, TOk(grad)), Contrib(b, TOk(TMulScalar(grad, 0 - 1)))>>
          [] op.tag = "Mul" -> <<Contrib(a, TMul(grad, vb)), Contrib(b, TMul(grad, va))>>
          [] op.tag = "Div" ->
                LET prod == TMul(TMulScalar(va, 0 - 1), grad)
                    b_sq == TMul(vb, vb)
                IN  <<Contrib(a, TDiv(grad, vb)),
                      Contrib(b, IF ~b_sq.ok THEN b_sq
                                 ELSE IF ~prod.ok THEN prod
                                 ELSE TDiv(prod.t, b_sq.t))>>
          [] op.tag = "MatMul" ->
                LET bt == TTranspose(vb)
                    at == TTranspose(va)
                IN  <<Contrib(a, IF bt.ok THEN TMatMul(grad, bt.t) ELSE bt),
                      Contrib(b, IF at.ok THEN TMatMul(at.t, grad) ELSE at)>>
          [] op.tag = "Neg" -> <<Contrib(a, TOk(TMulScalar(grad, 0 - 1)))>>
          [] op.tag = "Exp" -> <<Contrib(a, TMul(vi, grad))>>
          [] op.tag = "Ln" -> <<Contrib(a, TDiv(grad, va))>>
          [] op.tag = "Pow" ->
                <<Contrib(a, TMul(TMulScalar(TPowf(va, op.s - 1), op.s), grad))>>
          [] op.tag = "Relu" -> <<Contrib(a, TMul(TReluMask(va), grad))>>
          [] op.tag = "Sigmoid" ->
                LET sq == TMul(vi, one_minus(vi))
                IN  <<Contrib(a, IF sq.ok THEN TMul(sq.t, grad) ELSE sq)>>
          [] op.tag = "Tanh" ->
                LET th_sq == TMul(vi, vi)
                IN  <<Contrib(a, IF th_sq.ok THEN TMul(one_minus(th_sq.t), grad)
                                 ELSE th_sq)>>
          [] op.tag = "SumAll" ->
                <<Contrib(a, TOk(TMulScalarQ(TensorOnes(Get(g, a).shape),
                                             IF it.ok THEN it.v ELSE 1,
                                             IF it.ok THEN it.d ELSE 1)))>>
          [] op.tag = "MeanAll" ->
                <<Contrib(a, TOk(TMulScalarQ(TensorFullQ(Get(g, a).shape, 1, TNumel(va)),
                                             IF it.ok THEN it.v ELSE 1,
                                             IF it.ok THEN it.d ELSE 1)))>>
          [] op.tag = "Transpose" -> <<Contrib(a, TTranspose(grad))>>
          [] op.tag = "MulScalar" -> <<Contrib(a, TOk(TMulScalar(grad, op.s)))>>
          [] op.tag = "AddScalar" -> <<Contrib(a, TOk(grad))>>

\* accumulate the contributions one after the other
RECURSIVE AccumulateAll(_, _, _)
AccumulateAll(g, gr, cs) ==
    IF Len(cs) = 0 THEN [ok |-> TRUE, gr |-> gr]
    ELSE LET c == Head(cs)
             r == IF c.ok THEN AccumulateGrad(gr, c.id, c.g, Get(g, c.id).shape)
                  ELSE [ok |-> FALSE, gr |-> gr]
         IN  IF r.ok THEN AccumulateAll(g, r.gr, Tail(cs)) ELSE r

\* the seed of backward: ones of the loss node's shape
Seed(shape) == IF IsScalarShape(shape) THEN TensorScalar(1) ELSE TensorOnes(shape)

\* one iteration of the loop of backward at index idx; ok = FALSE is a panic
\* (an operand id out of range in Graph::get, or a failed expect())
LoopBody(g, gr, idx) ==
    IF ~HasGrad(gr, idx) THEN [ok |-> TRUE, gr |-> gr]
    ELSE IF \E o \in Operands(Get(g, idx).op) : ~InRange(g, o)
         THEN [ok |-> FALSE, gr |-> gr]
         ELSE AccumulateAll(g, gr, LocalGrads(g, idx, gr[idx]))

\* ------------------------------------------- v2 tensor library (oximl)
\* a dynamically typed tensor over an ndarray ArcArray: the elements
\* data[i] / den in logical (row-major index) order, and the strides that
\* say where each element lies in memory
T2L(dtype, shape, data, den, strides) ==
    [dtype |-> dtype, shape |-> shape, data |-> data, den |-> den, strides |-> strides]

\* ndarray default_strides: (b * c, c, 1) for the shape (a, b, c)
DefaultStrides(shape) == Strides(shape)

\* ndarray fortran_strides: (1, a, a * b) for the shape (a, b, c)
FortranStrides(shape) == [i \in 1 .. Len(shape) |-> SeqProd(SubSeq(shape, 1, i - 1))]

\* a tensor of whole numbers in standard layout (from a Vec, zeros, ones)
T2(dtype, shape, data) == T2L(dtype, shape, data, 1, DefaultStrides(shape))

NoT2 == T2("none", <<>>, <<>>)

\* st is "ok", "err" (an Err(TensorError) value) or "panic"
R2Ok(t) == [st |-> "ok", err |-> "none", t |-> t]

R2Err(e) == [st |-> "err", err |-> e, t |-> NoT2]

R2Panic(e) == [st |-> "panic", err |-> e, t |-> NoT2]

\* DType::is_float
IsFloat(dtype) == dtype \in {"Float32", "Float64"}

T2Ones(shape, dtype) == T2(dtype, shape, [i \in 1 .. SeqProd(shape) |-> 1])

\* the numbers of a v2 tensor as the v1 library computes on them
Numbers(t) == TensorD(t.shape, t.data, t.den)

\* ndarray is_layout_c (is_standard_layout): row-major contiguous.  The loop
\* runs from the last axis with contig = 1, skips an axis of length 1, and
\* else compares the stride with contig and multiplies contig by the length:
\* at axis k contig is the product of the lengths after k
IsLayoutC(dim, strides) ==
    \A k \in 1 .. Len(dim) : dim[k] # 1 => strides[k] = DefaultStrides(dim)[k]

\* ndarray is_layout_f: column-major contiguous, the same loop from the
\* first axis
IsLayoutF(dim, strides) ==
    \A k \in 1 .. Len(dim) : dim[k] # 1 => strides[k] = FortranStrides(dim)[k]

Reversed(s) == [k \in 1 .. Len(s) |-> s[Len(s) + 1 - k]]

\* the memory offset of the element at logical position flat
Offset(shape, strides, flat) ==
    LET rm == Strides(shape)
    IN  SeqSum([k \in 1 .. Len(shape) |-> ((flat \div rm[k]) % shape[k]) * strides[k]])

\* the strides map, to_owned and mapv give their result: those of the
\* operand when it is contiguous in memory, else the default ones
KeptStrides(t) ==
    IF IsLayoutC(t.shape, t.strides) \/ IsLayoutF(t.shape, t.strides) THEN t.strides
    ELSE DefaultStrides(t.shape)

\* the strides of the array map_collect builds for the two operands of
\* Zip::from(lhs).and(rhs), each viewed in the shape out
ZipStrides(a, b, out) ==
    LET n == Len(out)
        \* the strides of an operand as ndarray views it in the shape out
        \* (ndarray upcast when the operand is broadcast)
        view(t) ==
            IF SameSeq(t.shape, out) THEN t.strides
            ELSE [k \in 1 .. n |->
                     LET j == k - (n - Len(t.shape))
                     IN  IF j >= 1 /\ out[k] = t.shape[j] THEN t.strides[j] ELSE 0]
        \* ndarray array_layout: the Layout flags CORDER, FORDER, CPREF, FPREF
        array_layout(strides) ==
            IF IsLayoutC(out, strides)
            THEN IF n <= 1 \/ Cardinality({k \in 1 .. n : out[k] > 1}) <= 1
                 THEN [c |-> TRUE, f |-> TRUE, cpref |-> TRUE, fpref |-> TRUE]
                 ELSE [c |-> TRUE, f |-> FALSE, cpref |-> TRUE, fpref |-> FALSE]
            ELSE IF n > 1 /\ IsLayoutF(out, strides)
                 THEN [c |-> FALSE, f |-> TRUE, cpref |-> FALSE, fpref |-> TRUE]
            ELSE IF n > 1 /\ out[1] > 1 /\ strides[1] = 1
                 THEN [c |-> FALSE, f |-> FALSE, cpref |-> FALSE, fpref |-> TRUE]
            ELSE IF n > 1 /\ out[n] > 1 /\ strides[n] = 1
                 THEN [c |-> FALSE, f |-> FALSE, cpref |-> TRUE, fpref |-> FALSE]
            ELSE [c |-> FALSE, f |-> FALSE, cpref |-> FALSE, fpref |-> FALSE]
        \* Layout::tendency
        tendency(l) ==
            (IF l.c THEN 1 ELSE 0) - (IF l.f THEN 1 ELSE 0)
            + (IF l.cpref THEN 1 ELSE 0) - (IF l.fpref THEN 1 ELSE 0)
        va == view(a)
        vb == view(b)
        la == array_layout(va)
        lb == array_layout(vb)
        \* Zip::prefer_f
        prefer_f == ~(la.c /\ lb.c) /\ ((la.f /\ lb.f) \/ tendency(la) + tendency(lb) < 0)
    IN  IF prefer_f THEN FortranStrides(out) ELSE DefaultStrides(out)

\* a tensor of dtype holding the numbers v: a tensor of an integer dtype
\* holds whole numbers, a quotient being rounded towards zero.  A sum or a
\* product beyond u8 has no value here: ndarray's + and * panic on it in a
\* build with overflow checks and wrap in one without
FromNumbers(dtype, v, strides) ==
    IF IsFloat(dtype) THEN R2Ok(T2L(dtype, v.shape, v.data, v.den, strides))
    ELSE IF dtype = "UInt8" /\ \E i \in 1 .. Len(v.data) : v.data[i] \div v.den > 255
         THEN CHOOSE q \in {} : TRUE
    ELSE R2Ok(T2L(dtype, v.shape,
                  [i \in 1 .. Len(v.data) |->
                      IF v.data[i] >= 0 THEN v.data[i] \div v.den
                      ELSE 0 - ((0 - v.data[i]) \div v.den)], 1, strides))

\* ndarray's &a + &b, &a * &b, &a / &b behind impl Add / Mul / Div for
\* &Tensor: dtypes must agree; operands that do not broadcast together
\* panic, and so does an integer division by zero
T2Zip(a, b, op) ==
    IF a.dtype # b.dtype THEN R2Err("TypeMismatch")
    ELSE IF ~BroadcastShape(a.shape, b.shape).ok THEN R2Panic("ndarray: could not broadcast")
    ELSE IF op = "div" /\ ~IsFloat(a.dtype) /\ ~NoZero(b)
         THEN R2Panic("attempt to divide by zero")
    ELSE FromNumbers(a.dtype, BroadcastBinaryOp(Numbers(a), Numbers(b), op).t,
                     ZipStrides(a, b, BroadcastShape(a.shape, b.shape).shape))

T2Add(a, b) == T2Zip(a, b, "add")

T2Mul(a, b) == T2Zip(a, b, "mul")

T2Div(a, b) == T2Zip(a, b, "div")

\* Tensor::t: reversed_axes reverses the shape and the strides; the element
\* at index (i, j, ..) of the result is the one at (.., j, i) of the operand
T2Transpose(t) ==
    LET n == Len(t.shape)
        shp == Reversed(t.shape)
        rm == Strides(shp)
        own == Strides(t.shape)
        src(q) == SeqSum([k \in 1 .. n |-> ((q \div rm[k]) % shp[k]) * own[n + 1 - k]])
    IN  T2L(t.dtype, shp, [q \in 1 .. Len(t.data) |-> t.data[src(q - 1) + 1]], t.den,
            Reversed(t.strides))

\* (l? op r?): the error or panic of the first operand that has one, else
\* the operator on the two values
T2ZipAfter(l, r, op) ==
    IF l.st # "ok" THEN l
    ELSE IF r.st # "ok" THEN r
    ELSE T2Zip(l.t, r.t, op)

\* Tensor::matmul: exactly 2-d operands of one dtype, which is a float, Int32
\* or Int64 (the match has no arm for UInt8); ndarray's dot panics when the
\* inner dimensions differ, and gives a column-major result when the first
\* stride of both operands is 1
T2MatMul(a, b) ==
    IF Len(a.shape) # 2 \/ Len(b.shape) # 2 THEN R2Err("InvalidOperation")
    ELSE IF a.dtype # b.dtype THEN R2Err("TypeMismatch")
    ELSE IF a.dtype \notin {"Float32", "Float64", "Int32", "Int64"}
         THEN R2Err("InvalidOperation")
    ELSE IF a.shape[2] # b.shape[1] THEN R2Panic("ndarray: incompatible shapes for dot")
    ELSE FromNumbers(a.dtype, TMatMul(Numbers(a), Numbers(b)).t,
                     IF a.strides[1] = 1 /\ b.strides[1] = 1
                     THEN FortranStrides(<<a.shape[1], b.shape[2]>>)
                     ELSE DefaultStrides(<<a.shape[1], b.shape[2]>>))

\* Tensor::reshape: the element counts must agree; then into_shape(..).unwrap():
\* a standard-layout array keeps its elements in row-major order, a
\* column-major one is read in column-major order and gets column-major
\* strides, any other layout is an Err(IncompatibleLayout) that unwrap panics
\* on.  memory is the elements in the order they lie in memory
T2Reshape(t, newShape) ==
    IF SeqProd(newShape) # SeqProd(t.shape) THEN R2Err("ShapeMismatch")
    ELSE IF IsLayoutC(t.shape, t.strides)
         THEN R2Ok(T2L(t.dtype, newShape, t.data, t.den, DefaultStrides(newShape)))
    ELSE IF Len(t.shape) > 1 /\ IsLayoutC(Reversed(t.shape), Reversed(t.strides))
         THEN LET memory ==
                      [o \in 1 .. Len(t.data) |->
                          t.data[CHOOSE p \in 1 .. Len(t.data) :
                                     Offset(t.shape, t.strides, p - 1) = o - 1]]
              IN  R2Ok(T2L(t.dtype, newShape,
                           [q \in 1 .. Len(t.data) |->
                               memory[Offset(newShape, FortranStrides(newShape), q - 1) + 1]],
                           t.den, FortranStrides(newShape)))
    ELSE R2Panic("IncompatibleLayout")

\* Tensor::scalar_mul: the array times the scalar cast to the element type
\* ("scalar as u8" saturates: 0 for a negative scalar, 255 above 255; a
\* whole scalar is itself as f32, f64, i32, i64)
T2ScalarMul(t, s) ==
    FromNumbers(t.dtype,
                TMulScalar(Numbers(t), IF t.dtype # "UInt8" THEN s
                                       ELSE IF s < 0 THEN 0
                                       ELSE IF s > 255 THEN 255 ELSE s),
                KeptStrides(t))

\* Tensor::relu: max(x, 0) on a float tensor
T2Relu(t) ==
    IF ~IsFloat(t.dtype) THEN R2Err("InvalidOperation")
    ELSE FromNumbers(t.dtype, TRelu(Numbers(t)), KeptStrides(t))

\* Tensor::relu_backward: grad where x > 0, else 0, on float tensors; x is
\* broadcast to the shape of grad
T2ReluBackward(x, grad) ==
    IF ~IsFloat(x.dtype) \/ x.dtype # grad.dtype THEN R2Err("InvalidOperation")
    ELSE IF ~BroadcastShape(x.shape, grad.shape).ok
            \/ ~SameSeq(BroadcastShape(x.shape, grad.shape).shape, grad.shape)
         THEN R2Panic("ndarray: could not broadcast")
    ELSE FromNumbers(grad.dtype, TMul(Numbers(grad), TReluMask(Numbers(x))).t,
                     KeptStrides(grad))

\* Tensor::exp and Tensor::ln on a float tensor
T2Exp(t) ==
    IF ~IsFloat(t.dtype) THEN R2Err("InvalidOperation")
    ELSE R2Ok(T2L(t.dtype, t.shape, TExp(Numbers(t)).data, 1, KeptStrides(t)))

T2Ln(t) ==
    IF ~IsFloat(t.dtype) THEN R2Err("InvalidOperation")
    ELSE R2Ok(T2L(t.dtype, t.shape, TLn(Numbers(t)).data, 1, KeptStrides(t)))

\* Tensor::softmax: exp(x - max) / sum over ALL the elements, on a float
\* tensor; rational when x - max is 0 everywhere, each element then being
\* 1 / numel
T2Softmax(t) ==
    IF ~IsFloat(t.dtype) THEN R2Err("InvalidOperation")
    ELSE IF \A i \in 1 .. Len(t.data) : t.data[i] = t.data[1]
         THEN FromNumbers(t.dtype, TensorFullQ(t.shape, 1, SeqProd(t.shape)), KeptStrides(t))
    ELSE CHOOSE q \in {} : TRUE

\* Tensor::softmax_backward: self * (ones + self.scalar_mul(-1.0)) * grad
T2SoftmaxBackward(self, grad) ==
    T2ZipAfter(T2ZipAfter(R2Ok(self),
                          T2Add(T2Ones(self.shape, self.dtype), T2ScalarMul(self, 0 - 1).t),
                          "mul"),
               R2Ok(grad), "mul")

\* ------------------------------------------------------------ v2 graph
NoGrad2 == [some |-> FALSE, t |-> NoT2]

\* Graph::push_node: the node vector after the push (the id returned is Len(ns))
PushNode(ns, op, data, rg) ==
    Append(ns, [id |-> Len(ns), op |-> op, data |-> data,
                requires_grad |-> rg, grad |-> NoGrad2])

N2Ok(ns) == [st |-> "ok", err |-> "none", ns |-> ns]

N2Fail(st, err, ns) == [st |-> st, err |-> err, ns |-> ns]

SetGrad(ns, id, t) == [ns EXCEPT ![id + 1].grad = [some |-> TRUE, t |-> t]]

\* an accumulate_grad that does not look at requires_grad
AccumulateGrad2Always(ns, id, grad) ==
    IF ~InRange(ns, id) THEN N2Fail("panic", "index out of bounds", ns)
    ELSE IF Get(ns, id).grad.some
         THEN LET sum == T2Add(Get(ns, id).grad.t, grad)
              IN  IF sum.st = "ok" THEN N2Ok(SetGrad(ns, id, sum.t))
                  ELSE N2Fail(sum.st, sum.err, ns)
         ELSE N2Ok(SetGrad(ns, id, grad))

\* the node vector after the sum of the stored and the incoming gradient
\* is stored in node id
StoreSum(ns, id, sum) ==
    IF sum.st = "ok" THEN N2Ok(SetGrad(ns, id, sum.t)) ELSE N2Fail(sum.st, sum.err, ns)

\* accumulate_grad of the v2 graph: nothing for a node that does not require
\* grad; else the gradient is added to the one stored in the node
AccumulateGrad2(ns, id, grad) ==
    IF ~InRange(ns, id) THEN N2Fail("panic", "index out of bounds", ns)
    ELSE IF ~Get(ns, id).requires_grad THEN N2Ok(ns)
    ELSE IF Get(ns, id).grad.some THEN StoreSum(ns, id, T2Add(Get(ns, id).grad.t, grad))
    ELSE N2Ok(SetGrad(ns, id, grad))

\* accumulate into lhs after a fallible computation r of its gradient
AccAfter(ns, id, r) ==
    IF r.st = "ok" THEN AccumulateGrad2(ns, id, r.t) ELSE N2Fail(r.st, r.err, ns)

\* then: continue with the next accumulation only when the first succeeded
AccThen(first, id, r) ==
    IF first.st = "ok" THEN AccAfter(first.ns, id, r) ELSE first

\* both gradients are computed (gl? and gr?), gl first, before either is
\* accumulated
AccBoth(ns, a, gl, b, gr) ==
    IF gl.st # "ok" THEN N2Fail(gl.st, gl.err, ns)
    ELSE IF gr.st # "ok" THEN N2Fail(gr.st, gr.err, ns)
    ELSE AccThen(AccumulateGrad2(ns, a, gl.t), b, gr)

\* one iteration of the loop of Graph::backward at index i, on the node
\* vector under the write lock
LoopBody2(ns, i) ==
    LET nd == Get(ns, i)
        op == nd.op
        g == nd.grad.t
    IN  IF ~nd.requires_grad \/ ~nd.grad.some THEN N2Ok(ns)
        ELSE CASE op.tag = "Leaf" -> N2Ok(ns)
               [] op.tag = "Add" ->
                     AccThen(AccumulateGrad2(ns, op.a, g), op.b, R2Ok(g))
               [] op.tag = "MatMul" ->
                     IF ~InRange(ns, op.a) \/ ~InRange(ns, op.b)
                     THEN N2Fail("panic", "index out of bounds", ns)
                     ELSE AccBoth(ns, op.a, T2MatMul(g, T2Transpose(Get(ns, op.b).data)),
                                  op.b, T2MatMul(T2Transpose(Get(ns, op.a).data), g))
               [] op.tag = "Mul" ->
                     \* nodes[rhs] is indexed and (grad_i * it)? evaluated
                     \* before nodes[lhs] is indexed
                     IF ~InRange(ns, op.b) THEN N2Fail("panic", "index out of bounds", ns)
                     ELSE AccBoth(ns, op.a, T2Mul(g, Get(ns, op.b).data),
                                  op.b, IF InRange(ns, op.a) THEN T2Mul(g, Get(ns, op.a).data)
                                        ELSE R2Panic("index out of bounds"))
               [] op.tag = "ScalarMul" -> AccAfter(ns, op.a, T2ScalarMul(g, op.s))
               [] op.tag = "Transpose" -> AccumulateGrad2(ns, op.a, T2Transpose(g))
               [] op.tag = "Reshape" ->
                     IF ~InRange(ns, op.a) THEN N2Fail("panic", "index out of bounds", ns)
                     ELSE AccAfter(ns, op.a, T2Reshape(g, Get(ns, op.a).data.shape))
               [] op.tag = "Softmax" ->
                     IF ~InRange(ns, op.a) THEN N2Fail("panic", "index out of bounds", ns)
                     ELSE AccAfter(ns, op.a, T2SoftmaxBackward(Get(ns, op.a).data, g))
               [] op.tag = "Relu" ->
                     IF ~InRange(ns, op.a) THEN N2Fail("panic", "index out of bounds", ns)
                     ELSE AccAfter(ns, op.a, T2ReluBackward(Get(ns, op.a).data, g))
               [] op.tag = "Exp" -> AccAfter(ns, op.a, T2Mul(nd.data, g))
               [] op.tag = "Ln" ->
                     IF ~InRange(ns, op.a) THEN N2Fail("panic", "index out of bounds", ns)
                     ELSE LET x == Get(ns, op.a).data
                          IN  AccAfter(ns, op.a,
                                       T2ZipAfter(T2Div(T2Ones(x.shape, x.dtype), x),
                                                  R2Ok(g), "mul"))
               [] op.tag = "Div" ->
                     IF ~InRange(ns, op.a) \/ ~InRange(ns, op.b)
                     THEN N2Fail("panic", "index out of bounds", ns)
                     ELSE LET x == Get(ns, op.a).data
                              y == Get(ns, op.b).data
                          IN  AccBoth(ns, op.a,
                                      T2ZipAfter(R2Ok(g), T2Div(T2Ones(x.shape, x.dtype), y),
                                                 "mul"),
                                      op.b,
                                      T2ZipAfter(R2Ok(g),
                                                 T2ZipAfter(T2ScalarMul(x, 0 - 1), T2Mul(y, y),
                                                            "div"),
                                                 "mul"))

\* ------------------------------------------------------------- the state
VARIABLES
    engine,     \* which engine the run uses: "v1" or "v2"
    nodes,      \* v1: CURRENT_GRAPH's node vector
    held,       \* v1: the Variables the caller holds
    made,       \* nodes recorded so far in the run, over all graphs
    resets,     \* v1: reset_graph calls so far
    outcome,    \* how the last call of the caller ended
    bw,         \* v1: the backward call in progress: pc, loss id, n, idx
    grads,      \* v1: the gradient table of that call (returned when pc = "done")
    graphs,     \* v2: the node vector of each Graph instance
    held2,      \* v2: the Variables the caller holds
    poisoned,   \* v2: the graphs whose RwLock a panic has poisoned (a panic of
                \* a thread that held the write guard)
    bw2,        \* v2: the Graph::backward call in progress: pc, graph, root, i
    tls,        \* threads: each thread's thread_local state and position, and
                \* how its last call ended (ret, st, err)
    lock        \* threads: the RwLock of the Graph the threads share (graphs[1])

vars == <<engine, nodes, held, made, resets, outcome, bw, grads, graphs, held2, poisoned, bw2,
          tls, lock>>

thvars == <<tls, lock>>

v2vars == <<graphs, held2, poisoned, bw2>>

Outcome(call, kind, err, ret) == [call |-> call, kind |-> kind, err |-> err, ret |-> ret]

BwIdle == [pc |-> "idle", loss |-> NoId, n |-> 0, idx |-> NoId]

\* the caller is between calls (no backward is running)
Quiet == bw.pc # "loop"

Threads == 1 .. MaxThreads

\* the state when the program starts: CURRENT_GRAPH is empty; the v2 Graph
\* instances the run uses are new.
\* bw2: runs counts the backward calls made; pre is the node vector as the
\* running call found it.
\* tls: a thread when it starts: its thread_local CURRENT_GRAPH is a new Graph
\* and its IS_GRAD_ENABLED is true; saved holds the local prev of each
\* with_no_grad call in progress; pc is the thread's position inside a call
\* on the shared Graph, with the locals id, root, i of that call; calls
\* counts the calls the thread has made, got the ids push_node returned to
\* it, ret what its last completed call returned
\* lock: an RwLock nobody holds has no writer (0) and no readers
InitState ==
    /\ nodes = <<>>
    /\ held = {}
    /\ made = 0
    /\ resets = 0
    /\ outcome = Outcome("none", "none", "none", NoId)
    /\ bw = BwIdle
    /\ grads = NoGrads
    /\ graphs = [k \in 1 .. MaxGraphs |-> <<>>]
    /\ held2 = {}
    /\ poisoned = {}
    /\ bw2 = [pc |-> "idle", graph |-> 0, root |-> NoId, i |-> NoId, runs |-> 0, pre |-> <<>>]
    /\ tls = [t \in Threads |->
             [graph |-> <<>>, flag |-> TRUE, saved |-> <<>>, pc |-> "idle", id |-> NoId,
              op |-> OpLeaf, data |-> NoT2, rg |-> TRUE, root |-> NoId, i |-> NoId, calls |-> 0,
              got |-> {}, ret |-> NoId, st |-> "none", err |-> "none"]]
    /\ lock = [writer |-> 0, readers |-> {}]

\* a run of one engine
InitEngine(e) == engine = e /\ InitState

\* a Variable as the caller holds it: the struct's two fields, and, as
\* bookkeeping, how many reset_graph calls had happened when it was issued
\* (the struct itself carries no such field)
Issued(v) == [node_id |-> v.node_id, data |-> v.data, epoch |-> resets]

\* ------------------------------------------------------- v1 operations
\* a new call of the caller: the table of an earlier backward is dropped
Forget == bw' = BwIdle /\ grads' = NoGrads

\* a recording that hands back a Variable whose data is not the value stored
RecordOtherData(call, op, value) ==
    /\ nodes' = AddNode(nodes, op, value, TRUE)
    /\ held' = held \cup {Issued(Variable(Len(nodes), TAddScalar(value, 1)))}
    /\ made' = made + 1
    /\ outcome' = Outcome(call, "ok", "none", Len(nodes))

\* record a node for a computed value and hand back the Variable
Record(call, op, value) ==
    /\ nodes' = AddNode(nodes, op, value, TRUE)
    /\ held' = held \cup {Issued(Variable(Len(nodes), value))}
    /\ made' = made + 1
    /\ outcome' = Outcome(call, "ok", "none", Len(nodes))

\* a panic that records a node before it unwinds
PanicAfterRecord(call, err) ==
    /\ nodes' = AddNode(nodes, OpLeaf, NoTensor, TRUE)
    /\ outcome' = Outcome(call, "panic", err, NoId)
    /\ UNCHANGED <<held, made>>

\* the expect() on a failed computation panics before the graph is touched
Panic(call, err) ==
    /\ outcome' = Outcome(call, "panic", err, NoId)
    /\ UNCHANGED <<nodes, held, made>>

\* Variable::new (param: requires_grad = TRUE, input: FALSE)
VarNew(data, rg) ==
    /\ engine = "v1" /\ Quiet
    /\ nodes' = AddNode(nodes, OpLeaf, data, rg)
    /\ held' = held \cup {Issued(Variable(Len(nodes), data))}
    /\ made' = made + 1
    /\ outcome' = Outcome("new", "ok", "none", Len(nodes))
    /\ Forget
    /\ UNCHANGED <<engine, thvars, resets, v2vars>>

\* Variable::add, sub, mul, div, matmul
VarBinary(tag, x, y) ==
    /\ engine = "v1" /\ Quiet
    /\ Defined(tag, x.data, y.data, 0)
    /\ LET r == Forward(tag, x.data, y.data, 0)
       IN  IF r.ok THEN Record(tag, Op2(tag, x.node_id, y.node_id), r.t)
           ELSE IF r.err = "panic: index out of bounds" THEN Panic(tag, "index out of bounds")
           ELSE Panic(tag, ExpectMsg(tag))
    /\ Forget
    /\ UNCHANGED <<engine, thvars, resets, v2vars>>

\* Variable::neg, exp, ln, relu, sigmoid, tanh_act, sum, mean, t
VarUnary(tag, x) ==
    /\ engine = "v1" /\ Quiet
    /\ Defined(tag, x.data, x.data, 0)
    /\ LET r == Forward(tag, x.data, x.data, 0)
       IN  IF r.ok THEN Record(tag, Op1(tag, x.node_id), r.t)
           ELSE Panic(tag, ExpectMsg(tag))
    /\ Forget
    /\ UNCHANGED <<engine, thvars, resets, v2vars>>

\* Variable::pow, mul_scalar, add_scalar
VarScalar(tag, x, s) ==
    /\ engine = "v1" /\ Quiet
    /\ Defined(tag, x.data, x.data, s)
    /\ LET r == Forward(tag, x.data, x.data, s)
       IN  Record(tag, OpS(tag, x.node_id, s), r.t)
    /\ Forget
    /\ UNCHANGED <<engine, thvars, resets, v2vars>>

\* reset_graph: a fresh empty graph replaces the current one; the caller
\* may keep handles made on the old one
ResetGraph ==
    /\ engine = "v1" /\ Quiet /\ resets < MaxResets
    /\ nodes' = <<>>
    /\ \E keep \in SUBSET held : Cardinality(keep) <= MaxStale /\ held' = keep
    /\ resets' = resets + 1
    /\ outcome' = Outcome("reset", "ok", "none", NoId)
    /\ Forget
    /\ UNCHANGED <<engine, thvars, made, v2vars>>

\* a backward call that starts from the table the previous call left
BackwardCallKeeping(loss) ==
    /\ engine = "v1" /\ Quiet
    /\ IF InRange(nodes, loss.node_id)
       THEN /\ bw' = [pc |-> "loop", loss |-> loss.node_id, n |-> Len(nodes),
                      idx |-> Len(nodes) - 1]
            /\ grads' = (loss.node_id :> Seed(Get(nodes, loss.node_id).shape)) @@ grads
            /\ outcome' = Outcome("backward", "running", "none", NoId)
       ELSE /\ bw' = [BwIdle EXCEPT !.pc = "panicked"]
            /\ grads' = NoGrads
            /\ outcome' = Outcome("backward", "panic", "index out of bounds", NoId)
    /\ UNCHANGED <<engine, thvars, nodes, held, made, resets, v2vars>>

\* backward(loss): n = graph.len(), the seed, then the loop from n - 1
BackwardCall(loss) ==
    /\ engine = "v1" /\ Quiet
    /\ IF InRange(nodes, loss.node_id)
       THEN /\ bw' = [pc |-> "loop", loss |-> loss.node_id, n |-> Len(nodes),
                      idx |-> Len(nodes) - 1]
            /\ grads' = (loss.node_id :> Seed(Get(nodes, loss.node_id).shape))
            /\ outcome' = Outcome("backward", "running", "none", NoId)
       ELSE /\ bw' = [BwIdle EXCEPT !.pc = "panicked"]
            /\ grads' = NoGrads
            /\ outcome' = Outcome("backward", "panic", "index out of bounds", NoId)
    /\ UNCHANGED <<engine, thvars, nodes, held, made, resets, v2vars>>

\* an iteration that goes on two indices further down
BackwardStepSkipping ==
    /\ engine = "v1" /\ bw.pc = "loop" /\ bw.idx >= 0
    /\ LET r == LoopBody(nodes, grads, bw.idx)
       IN  IF r.ok
           THEN /\ grads' = r.gr
                /\ bw' = [bw EXCEPT !.idx = bw.idx - 2]
                /\ UNCHANGED outcome
           ELSE /\ grads' = NoGrads
                /\ bw' = [bw EXCEPT !.pc = "panicked"]
                /\ outcome' = Outcome("backward", "panic", "backward", NoId)
    /\ UNCHANGED <<engine, thvars, nodes, held, made, resets, v2vars>>

\* an iteration that writes the gradient it visits into the node
BackwardStepWriting ==
    /\ engine = "v1" /\ bw.pc = "loop" /\ bw.idx >= 0
    /\ LET r == LoopBody(nodes, grads, bw.idx)
       IN  IF r.ok
           THEN /\ grads' = r.gr
                /\ bw' = [bw EXCEPT !.idx = bw.idx - 1]
                /\ UNCHANGED outcome
           ELSE /\ grads' = NoGrads
                /\ bw' = [bw EXCEPT !.pc = "panicked"]
                /\ outcome' = Outcome("backward", "panic", "backward", NoId)
    /\ nodes' = IF HasGrad(grads, bw.idx)
                THEN [nodes EXCEPT ![bw.idx + 1].value = TAddScalar(grads[bw.idx], 1)]
                ELSE nodes
    /\ UNCHANGED <<engine, thvars, held, made, resets, v2vars>>

\* one iteration of "for idx in (0..n).rev()"
BackwardStep ==
    /\ engine = "v1" /\ bw.pc = "loop" /\ bw.idx >= 0
    /\ LET r == LoopBody(nodes, grads, bw.idx)
       IN  IF r.ok
           THEN /\ grads' = r.gr
                /\ bw' = [bw EXCEPT !.idx = bw.idx - 1]
                /\ UNCHANGED outcome
           ELSE /\ grads' = NoGrads
                /\ bw' = [bw EXCEPT !.pc = "panicked"]
                /\ outcome' = Outcome("backward", "panic", "backward", NoId)
    /\ UNCHANGED <<engine, thvars, nodes, held, made, resets, v2vars>>

\* the loop is over: the table is returned to the caller
BackwardReturn ==
    /\ engine = "v1" /\ bw.pc = "loop" /\ bw.idx < 0
    /\ bw' = [bw EXCEPT !.pc = "done"]
    /\ outcome' = Outcome("backward", "ok", "none", NoId)
    /\ UNCHANGED <<engine, thvars, nodes, held, made, resets, grads, v2vars>>

\* ------------------------------------------------------- v2 operations
v1vars == <<nodes, held, resets, bw, grads>>

Quiet2 == bw2.pc # "loop"

\* a v2 call that ends without touching any graph
End2(call, kind, err) ==
    /\ outcome' = Outcome(call, kind, err, NoId)
    /\ UNCHANGED <<graphs, held2, made, poisoned, bw2>>

\* push a node on graph gid for a computed value and hand back the Variable
Record2(call, gid, op, data, rg) ==
    /\ graphs' = [graphs EXCEPT ![gid] = PushNode(graphs[gid], op, data, rg)]
    /\ held2' = held2 \cup {[node_id |-> Len(graphs[gid]), data |-> data, graph |-> gid]}
    /\ made' = made + 1
    /\ outcome' = Outcome(call, "ok", "none", Len(graphs[gid]))
    /\ UNCHANGED <<poisoned, bw2>>

\* Variable::param / Variable::input on graph gid
VarLeaf2(data, gid, rg) ==
    /\ engine = "v2" /\ Quiet2
    /\ IF gid \in poisoned THEN End2("leaf", "panic", "PoisonError")
       ELSE Record2("leaf", gid, OpLeaf, data, rg)
    /\ UNCHANGED <<engine, thvars, v1vars>>

\* requires_grad of the node behind a handle, read through get_node
ReqGrad2(x) == Get(graphs[x.graph], x.node_id).requires_grad

\* the tensor computation of Variable::add and Variable::matmul
Forward2v2(tag, x, y) == IF tag = "Add" THEN T2Add(x, y) ELSE T2MatMul(x, y)

\* Variable::add and Variable::matmul: the tensor computation first, then
\* the requires_grad of the operands (rhs is read only when self does not
\* require grad), then the push on self's graph
VarBinary2(tag, x, y) ==
    /\ engine = "v2" /\ Quiet2
    /\ IF Forward2v2(tag, x.data, y.data).st # "ok"
       THEN End2(tag, Forward2v2(tag, x.data, y.data).st, Forward2v2(tag, x.data, y.data).err)
       ELSE IF x.graph \in poisoned \/ (~ReqGrad2(x) /\ y.graph \in poisoned)
            THEN End2(tag, "panic", "PoisonError")
            ELSE Record2(tag, x.graph, Op2(tag, x.node_id, y.node_id),
                         Forward2v2(tag, x.data, y.data).t, ReqGrad2(x) \/ ReqGrad2(y))
    /\ UNCHANGED <<engine, thvars, v1vars>>

\* Variable::reshape
VarReshape2(x, shape) ==
    /\ engine = "v2" /\ Quiet2
    /\ IF T2Reshape(x.data, shape).st # "ok"
       THEN End2("Reshape", T2Reshape(x.data, shape).st, T2Reshape(x.data, shape).err)
       ELSE IF x.graph \in poisoned THEN End2("Reshape", "panic", "PoisonError")
            ELSE Record2("Reshape", x.graph, Op1("Reshape", x.node_id),
                         T2Reshape(x.data, shape).t, ReqGrad2(x))
    /\ UNCHANGED <<engine, thvars, v1vars>>

\* Variable::scalar_mul
VarScalarMul2(x, s) ==
    /\ engine = "v2" /\ Quiet2
    /\ IF x.graph \in poisoned THEN End2("ScalarMul", "panic", "PoisonError")
       ELSE Record2("ScalarMul", x.graph, OpS("ScalarMul", x.node_id, s),
                    T2ScalarMul(x.data, s).t, ReqGrad2(x))
    /\ UNCHANGED <<engine, thvars, v1vars>>

\* Variable::t
VarTranspose2(x) ==
    /\ engine = "v2" /\ Quiet2
    /\ IF x.graph \in poisoned THEN End2("Transpose", "panic", "PoisonError")
       ELSE Record2("Transpose", x.graph, Op1("Transpose", x.node_id),
                    T2Transpose(x.data), ReqGrad2(x))
    /\ UNCHANGED <<engine, thvars, v1vars>>

\* Variable::softmax, on the operands on which softmax is a rational
VarSoftmax2(x) ==
    /\ engine = "v2" /\ Quiet2
    /\ IsFloat(x.data.dtype) => \A i \in 1 .. Len(x.data.data) : x.data.data[i] = x.data.data[1]
    /\ IF T2Softmax(x.data).st = "err"
       THEN End2("Softmax", "err", T2Softmax(x.data).err)
       ELSE IF x.graph \in poisoned THEN End2("Softmax", "panic", "PoisonError")
            ELSE Record2("Softmax", x.graph, Op1("Softmax", x.node_id),
                         T2Softmax(x.data).t, ReqGrad2(x))
    /\ UNCHANGED <<engine, thvars, v1vars>>

\* the tensor a caller of Graph::push_node computes for the Op it records,
\* with impl Mul / Div for &Tensor, Tensor::relu, Tensor::exp or Tensor::ln
Direct2(tag, x, y) ==
    CASE tag = "Mul" -> T2Mul(x, y)
      [] tag = "Div" -> T2Div(x, y)
      [] tag = "Relu" -> T2Relu(x)
      [] tag = "Exp" -> T2Exp(x)
      [] tag = "Ln" -> T2Ln(x)

\* Graph::push_node called directly, for an Op no Variable method records
\* (Mul, Div, Relu, Exp, Ln): the caller computes the tensor, pushes the
\* node with the requires_grad it chooses and wraps the id in a Variable;
\* the operands are those on which the tensor is a rational
PushDirect2(tag, x, y, rg) ==
    /\ engine = "v2" /\ Quiet2
    /\ IsFloat(x.data.dtype) =>
           CASE tag = "Div" -> NoZero(y.data)
             [] tag = "Exp" -> AllElems(x.data, 0)
             [] tag = "Ln" -> AllElems(x.data, 1) /\ x.data.den = 1
             [] OTHER -> TRUE
    /\ IF Direct2(tag, x.data, y.data).st # "ok"
       THEN End2(tag, Direct2(tag, x.data, y.data).st, Direct2(tag, x.data, y.data).err)
       ELSE IF x.graph \in poisoned THEN End2(tag, "panic", "PoisonError")
            ELSE Record2(tag, x.graph,
                         IF tag \in {"Mul", "Div"} THEN Op2(tag, x.node_id, y.node_id)
                         ELSE Op1(tag, x.node_id),
                         Direct2(tag, x.data, y.data).t, rg)
    /\ UNCHANGED <<engine, thvars, v1vars>>

\* the seed of Graph::backward: ones of the root's shape and dtype
Seed2(ns, root) == T2Ones(Get(ns, root).data.shape, Get(ns, root).data.dtype)

\* Graph::backward(root_id) on graph gid: take the write lock, seed the root
\* with ones, start the loop at the root
BackwardCall2(gid, root) ==
    /\ engine = "v2" /\ Quiet2
    /\ IF gid \in poisoned
       THEN /\ outcome' = Outcome("backward", "panic", "PoisonError", NoId)
            /\ UNCHANGED <<graphs, poisoned, bw2>>
       ELSE IF ~InRange(graphs[gid], root)
       THEN /\ outcome' = Outcome("backward", "panic", "index out of bounds", NoId)
            /\ poisoned' = poisoned \cup {gid}
            /\ UNCHANGED <<graphs, bw2>>
       ELSE     /\ graphs' = [graphs EXCEPT ![gid] = SetGrad(graphs[gid], root, Seed2(graphs[gid], root))]
                /\ bw2' = [pc |-> "loop", graph |-> gid, root |-> root, i |-> root,
                            runs |-> bw2.runs + 1, pre |-> graphs[gid]]
                /\ outcome' = Outcome("backward", "running", "none", NoId)
                /\ UNCHANGED poisoned
    /\ UNCHANGED <<engine, thvars, made, held2, v1vars>>

\* one iteration of "for i in (0..=root_id).rev()"; an Err ends the call with
\* that error, a panic poisons the lock
BackwardStep2 ==
    /\ engine = "v2" /\ bw2.pc = "loop" /\ bw2.i >= 0
    /\ \E r \in {LoopBody2(graphs[bw2.graph], bw2.i)} :
           /\ graphs' = [graphs EXCEPT ![bw2.graph] = r.ns]
           /\ bw2' = IF r.st = "ok" THEN [bw2 EXCEPT !.i = bw2.i - 1]
                     ELSE [bw2 EXCEPT !.pc = "failed"]
           /\ outcome' = IF r.st = "ok" THEN outcome
                         ELSE Outcome("backward", r.st, r.err, NoId)
           /\ poisoned' = IF r.st = "panic" THEN poisoned \cup {bw2.graph} ELSE poisoned
    /\ UNCHANGED <<engine, thvars, made, held2, v1vars>>

\* the loop is over: Ok(())
BackwardReturn2 ==
    /\ engine = "v2" /\ bw2.pc = "loop" /\ bw2.i < 0
    /\ bw2' = [bw2 EXCEPT !.pc = "done"]
    /\ outcome' = Outcome("backward", "ok", "none", NoId)
    /\ UNCHANGED <<engine, thvars, made, graphs, held2, poisoned, v1vars>>

\* ------------------------------------------- threads: v1 CURRENT_GRAPH
\* what a multi-threaded run leaves alone: the single-threaded runs' state
mainvars == <<engine, nodes, held, made, resets, outcome, bw, grads, held2, bw2>>

\* thread t is between calls and has calls left
ThreadCall(t) == engine = "threads" /\ tls[t].pc = "idle" /\ tls[t].calls < MaxCalls

\* one static graph for the whole process
GraphOfProcess(t) == 1

\* the slot CURRENT_GRAPH.with reaches on thread t: thread_local gives every
\* thread its own
GraphOf(t) == t

\* Variable::new on thread t: with_graph(|g| g.add_node(Op::Leaf, data, rg))
ThreadNew(t, data, rg) ==
    /\ ThreadCall(t)
    /\ tls' = [tls EXCEPT ![GraphOf(t)].graph = AddNode(@, OpLeaf, data, rg),
                          ![t].calls = @ + 1,
                          ![t].ret = Len(tls[GraphOf(t)].graph), ![t].st = "ok", ![t].err = "none"]
    /\ UNCHANGED <<mainvars, poisoned, graphs, lock>>

\* with_graph(|g| g.len()) on thread t
ThreadLen(t) ==
    /\ ThreadCall(t)
    /\ tls' = [tls EXCEPT ![t].calls = @ + 1, ![t].ret = Len(tls[GraphOf(t)].graph),
                          ![t].st = "ok", ![t].err = "none"]
    /\ UNCHANGED <<mainvars, poisoned, graphs, lock>>

\* reset_graph on thread t
ThreadReset(t) ==
    /\ ThreadCall(t)
    /\ tls' = [tls EXCEPT ![GraphOf(t)].graph = <<>>, ![t].calls = @ + 1, ![t].ret = NoId,
                          ![t].st = "ok", ![t].err = "none"]
    /\ UNCHANGED <<mainvars, poisoned, graphs, lock>>

\* ------------------------------------- threads: one Graph shared (v2)
\* a write lock that is granted whoever holds the lock
WriteFreeAlways(l) == TRUE

\* RwLock::write is granted when nobody holds the lock
WriteFree(l) == l.writer = 0 /\ l.readers = {}

\* RwLock::read is granted when no writer holds the lock
ReadFree(l) == l.writer = 0

\* a node can still be pushed, counting the threads inside a Variable method
\* on the shared Graph (from its first lock section to the grant of the
\* write lock of its push_node)
RoomToPush ==
    Len(graphs[1])
    + Cardinality({t \in Threads :
                      tls[t].pc \in {"var-self", "var-flag", "var-rhs", "var-push"}})
    < MaxShared

\* Graph::push_node, first half: self.nodes.write() is granted and
\* "let id = nodes.len()" is read; the thread waits while the lock is held.
\* On a poisoned lock write() hands the guard back in an Err, and unwrap()
\* panics.  The tensor of every leaf the threads push has one value in all
\* its elements, as every tensor computed from it, so that softmax has a value
PushLock(t, op, rg) ==
    /\ ThreadCall(t) /\ WriteFree(lock)
    /\ IF 1 \in poisoned
       THEN /\ tls' = [tls EXCEPT ![t].calls = @ + 1, ![t].ret = NoId, ![t].st = "panic", ![t].err = "PoisonError"]
            /\ UNCHANGED lock
       ELSE /\ RoomToPush
            /\ lock' = [lock EXCEPT !.writer = t]
            /\ tls' = [tls EXCEPT ![t].pc = "push", ![t].id = Len(graphs[1]), ![t].op = op,
                                  ![t].data = T2("Float64", <<2>>, <<1, 1>>), ![t].rg = rg]
    /\ UNCHANGED <<mainvars, poisoned, graphs>>

\* Graph::push_node, second half: nodes.push(Node { id, .. }), the guard is
\* dropped, id is returned
PushReturn(t) ==
    /\ engine = "threads" /\ tls[t].pc = "push"
    /\ graphs' = [graphs EXCEPT ![1] = Append(@, [id |-> tls[t].id, op |-> tls[t].op,
                                                  data |-> tls[t].data,
                                                  requires_grad |-> tls[t].rg,
                                                  grad |-> NoGrad2])]
    /\ lock' = [lock EXCEPT !.writer = 0]
    /\ tls' = [tls EXCEPT ![t].pc = "idle", ![t].calls = @ + 1, ![t].ret = tls[t].id,
                          ![t].st = "ok", ![t].err = "none", ![t].got = @ \cup {tls[t].id}]
    /\ UNCHANGED <<mainvars, poisoned>>

\* Graph::get_node(id), first half: self.nodes.read() is granted; on a
\* poisoned lock unwrap() panics
GetLock(t, id) ==
    /\ ThreadCall(t) /\ ReadFree(lock)
    /\ IF 1 \in poisoned
       THEN /\ tls' = [tls EXCEPT ![t].calls = @ + 1, ![t].ret = NoId, ![t].st = "panic", ![t].err = "PoisonError"]
            /\ UNCHANGED lock
       ELSE /\ lock' = [lock EXCEPT !.readers = @ \cup {t}]
            /\ tls' = [tls EXCEPT ![t].pc = "get", ![t].id = id]
    /\ UNCHANGED <<mainvars, poisoned, graphs>>

\* Graph::get_node(id), second half: nodes.get(id).cloned(), the guard is
\* dropped; ret is the id field of the node seen, NoId for None
GetReturn(t) ==
    /\ engine = "threads" /\ tls[t].pc = "get"
    /\ lock' = [lock EXCEPT !.readers = @ \ {t}]
    /\ tls' = [tls EXCEPT ![t].pc = "idle", ![t].calls = @ + 1, ![t].st = "ok", ![t].err = "none",
                          ![t].ret = IF InRange(graphs[1], tls[t].id)
                                     THEN Get(graphs[1], tls[t].id).id ELSE NoId]
    /\ UNCHANGED <<mainvars, poisoned, graphs>>

\* Graph::backward(root) on the shared Graph: self.nodes.write() is granted
\* (unwrap() panics on a poisoned lock) and the root is seeded; nodes[root_id]
\* panics on a root that is no node, under the write guard, which poisons
\* the lock
BwLock(t, root) ==
    /\ ThreadCall(t) /\ WriteFree(lock)
    /\ IF 1 \in poisoned \/ ~InRange(graphs[1], root)
       THEN /\ tls' = [tls EXCEPT ![t].calls = @ + 1, ![t].ret = NoId, ![t].st = "panic",
                                  ![t].err = IF 1 \in poisoned THEN "PoisonError"
                                             ELSE "index out of bounds"]
            /\ poisoned' = poisoned \cup {1}
            /\ UNCHANGED <<graphs, lock>>
       ELSE /\ lock' = [lock EXCEPT !.writer = t]
            /\ graphs' = [graphs EXCEPT ![1] = SetGrad(@, root, Seed2(@, root))]
            /\ tls' = [tls EXCEPT ![t].pc = "backward", ![t].root = root, ![t].i = root]
            /\ UNCHANGED poisoned
    /\ UNCHANGED mainvars

\* one iteration of the loop of Graph::backward, under the write lock; an
\* Err ends the call and drops the guard, a panic drops the guard while
\* unwinding, which poisons the lock
BwStep(t) ==
    /\ engine = "threads" /\ tls[t].pc = "backward" /\ tls[t].i >= 0
    /\ \E r \in {LoopBody2(graphs[1], tls[t].i)} :
           /\ graphs' = [graphs EXCEPT ![1] = r.ns]
           /\ IF r.st = "ok"
              THEN /\ tls' = [tls EXCEPT ![t].i = @ - 1]
                   /\ UNCHANGED <<lock, poisoned>>
              ELSE /\ tls' = [tls EXCEPT ![t].pc = "idle", ![t].calls = @ + 1, ![t].ret = NoId,
                                         ![t].st = r.st, ![t].err = r.err]
                   /\ lock' = [lock EXCEPT !.writer = 0]
                   /\ poisoned' = IF r.st = "panic" THEN poisoned \cup {1} ELSE poisoned
    /\ UNCHANGED mainvars

\* the loop of Graph::backward is over: Ok(()), the guard is dropped
BwReturn(t) ==
    /\ engine = "threads" /\ tls[t].pc = "backward" /\ tls[t].i < 0
    /\ lock' = [lock EXCEPT !.writer = 0]
    /\ tls' = [tls EXCEPT ![t].pc = "idle", ![t].calls = @ + 1, ![t].ret = NoId, ![t].st = "ok", ![t].err = "none"]
    /\ UNCHANGED <<mainvars, poisoned, graphs>>

\* the Variable methods a thread calls on the Variables it was given
SharedMethods(t) ==
    {Op2("Add", a, b) : a \in tls[t].got, b \in tls[t].got}
        \cup {Op1(tag, a) : tag \in {"Transpose", "Reshape", "Softmax"}, a \in tls[t].got}
        \cup {OpS("ScalarMul", a, 2) : a \in tls[t].got}

\* out_data of the method: &self.data + &rhs.data, self.data.t(),
\* self.data.reshape(shape) with the shape self has, self.data.scalar_mul(s),
\* self.data.softmax(); the data field of the Variable of a node is the clone
\* of the tensor the node was pushed with
MethodData(op) ==
    CASE op.tag = "Add" -> T2Add(Get(graphs[1], op.a).data, Get(graphs[1], op.b).data)
      [] op.tag = "Transpose" -> R2Ok(T2Transpose(Get(graphs[1], op.a).data))
      [] op.tag = "Reshape" -> T2Reshape(Get(graphs[1], op.a).data, Get(graphs[1], op.a).data.shape)
      [] op.tag = "ScalarMul" -> T2ScalarMul(Get(graphs[1], op.a).data, op.s)
      [] op.tag = "Softmax" -> T2Softmax(Get(graphs[1], op.a).data)

\* a Variable method (add, t, reshape, scalar_mul, softmax) on thread t, up
\* to the first lock section:
\* out_data is computed (an Err or a panic ends the call), then self.get_node()
\* is granted self.graph.nodes.read(), whose unwrap() panics on a poisoned lock
MethodCall(t, op) ==
    /\ ThreadCall(t) /\ RoomToPush
    /\ IF MethodData(op).st # "ok"
       THEN /\ tls' = [tls EXCEPT ![t].calls = @ + 1, ![t].ret = NoId,
                                  ![t].st = MethodData(op).st,
                                  ![t].err = MethodData(op).err]
            /\ UNCHANGED lock
       ELSE /\ ReadFree(lock)
            /\ IF 1 \in poisoned
               THEN /\ tls' = [tls EXCEPT ![t].calls = @ + 1, ![t].ret = NoId,
                                          ![t].st = "panic", ![t].err = "PoisonError"]
                    /\ UNCHANGED lock
               ELSE /\ lock' = [lock EXCEPT !.readers = @ \cup {t}]
                    /\ tls' = [tls EXCEPT ![t].pc = "var-self", ![t].op = op,
                                          ![t].data = MethodData(op).t]
    /\ UNCHANGED <<mainvars, poisoned, graphs>>

\* self.get_node(): nodes.get(id).cloned(), the read guard is dropped,
\* expect("Node must exist in graph") panics on None; with the flag of self
\* false, add goes on to rhs.get_node()
MethodSelf(t) ==
    /\ engine = "threads" /\ tls[t].pc = "var-self"
    /\ lock' = [lock EXCEPT !.readers = @ \ {t}]
    /\ IF ~InRange(graphs[1], tls[t].op.a)
       THEN tls' = [tls EXCEPT ![t].pc = "idle", ![t].calls = @ + 1, ![t].ret = NoId,
                               ![t].st = "panic", ![t].err = "Node must exist in graph"]
       ELSE tls' = [tls EXCEPT ![t].rg = Get(graphs[1], tls[t].op.a).requires_grad,
                               ![t].pc = IF tls[t].op.tag # "Add"
                                            \/ Get(graphs[1], tls[t].op.a).requires_grad
                                         THEN "var-push" ELSE "var-flag"]
    /\ UNCHANGED <<mainvars, poisoned, graphs>>

\* rhs.get_node(), first half: the read lock is granted a second time;
\* unwrap() panics on a lock poisoned since the first
MethodRhsLock(t) ==
    /\ engine = "threads" /\ tls[t].pc = "var-flag" /\ ReadFree(lock)
    /\ IF 1 \in poisoned
       THEN /\ tls' = [tls EXCEPT ![t].pc = "idle", ![t].calls = @ + 1, ![t].ret = NoId,
                                  ![t].st = "panic", ![t].err = "PoisonError"]
            /\ UNCHANGED lock
       ELSE /\ lock' = [lock EXCEPT !.readers = @ \cup {t}]
            /\ tls' = [tls EXCEPT ![t].pc = "var-rhs"]
    /\ UNCHANGED <<mainvars, poisoned, graphs>>

\* rhs.get_node(), second half: requires_grad is the flag of rhs
MethodRhs(t) ==
    /\ engine = "threads" /\ tls[t].pc = "var-rhs"
    /\ lock' = [lock EXCEPT !.readers = @ \ {t}]
    /\ IF ~InRange(graphs[1], tls[t].op.b)
       THEN tls' = [tls EXCEPT ![t].pc = "idle", ![t].calls = @ + 1, ![t].ret = NoId,
                               ![t].st = "panic", ![t].err = "Node must exist in graph"]
       ELSE tls' = [tls EXCEPT ![t].rg = Get(graphs[1], tls[t].op.b).requires_grad,
                               ![t].pc = "var-push"]
    /\ UNCHANGED <<mainvars, poisoned, graphs>>

\* self.graph.push_node(op, out_data.clone(), requires_grad), first half:
\* the write lock is granted (unwrap() panics on a poisoned lock) and
\* "let id = nodes.len()" is read; the second half is PushReturn
MethodPushLock(t) ==
    /\ engine = "threads" /\ tls[t].pc = "var-push" /\ WriteFree(lock)
    /\ IF 1 \in poisoned
       THEN /\ tls' = [tls EXCEPT ![t].pc = "idle", ![t].calls = @ + 1, ![t].ret = NoId,
                                  ![t].st = "panic", ![t].err = "PoisonError"]
            /\ UNCHANGED lock
       ELSE /\ lock' = [lock EXCEPT !.writer = t]
            /\ tls' = [tls EXCEPT ![t].pc = "push", ![t].id = Len(graphs[1])]
    /\ UNCHANGED <<mainvars, poisoned, graphs>>

\* ------------------------------------------------ with_no_grad (v2)
\* the thread a single-threaded run is made on
Main == 1

\* is_grad_enabled() on thread t
IsGradEnabled(t) == tls[t].flag

\* the with_no_grad calls in progress on thread t
Nesting(t) == Len(tls[t].saved)

\* with_no_grad, up to the call of the closure:
\* "let prev = IS_GRAD_ENABLED.with(|flag| flag.replace(false))"
NoGradEnter(t) ==
    /\ engine = "v2" /\ Quiet2 /\ Nesting(t) < MaxNesting
    /\ tls' = [tls EXCEPT ![t].saved = Append(@, tls[t].flag), ![t].flag = FALSE]
    /\ outcome' = Outcome("with_no_grad", "running", "none", NoId)
    /\ UNCHANGED <<engine, made, lock, v1vars, v2vars>>

\* a return that switches tracking on whatever the flag was before
NoGradExitEnabling(t) ==
    /\ engine = "v2" /\ Quiet2 /\ Nesting(t) > 0
    /\ tls' = [tls EXCEPT ![t].saved = SubSeq(@, 1, Len(@) - 1), ![t].flag = TRUE]
    /\ outcome' = Outcome("with_no_grad", "ok", "none", NoId)
    /\ UNCHANGED <<engine, made, lock, v1vars, v2vars>>

\* with_no_grad, after the closure has returned:
\* "IS_GRAD_ENABLED.with(|flag| flag.set(prev))" of the innermost call
NoGradExit(t) ==
    /\ engine = "v2" /\ Quiet2 /\ Nesting(t) > 0
    /\ tls' = [tls EXCEPT ![t].saved = SubSeq(@, 1, Len(@) - 1),
                          ![t].flag = tls[t].saved[Len(tls[t].saved)]]
    /\ outcome' = Outcome("with_no_grad", "ok", "none", NoId)
    /\ UNCHANGED <<engine, made, lock, v1vars, v2vars>>

\* the last call of the closure panicked and the panic leaves the innermost
\* with_no_grad: the call is unwound before its flag.set(prev)
NoGradUnwind(t) ==
    /\ engine = "v2" /\ Quiet2 /\ Nesting(t) > 0 /\ outcome.kind = "panic"
    /\ tls' = [tls EXCEPT ![t].saved = SubSeq(@, 1, Len(@) - 1)]
    /\ UNCHANGED <<engine, made, outcome, lock, v1vars, v2vars>>

\* ---------------------------------------------- scalar expressions (v1)
\* expressions over 0-d parameters with add, sub, mul, neg, add_scalar and
\* mul_scalar, on one graph
NextExpr ==
    \/ made < MaxExpr /\ \E d \in {TensorScalar(v) : v \in {0 - 1, 2, 3}} : VarNew(d, TRUE)
    \/ made < MaxExpr /\ \E t \in {"Add", "Sub", "Mul"}, x \in held, y \in held : VarBinary(t, x, y)
    \/ made < MaxExpr /\ \E x \in held : VarUnary("Neg", x)
    \/ made < MaxExpr /\ \E t \in {"MulScalar", "AddScalar"}, x \in held, s \in {2} : VarScalar(t, x, s)
    \/ \E v \in held : BackwardCall(v)
    \/ BackwardStep
    \/ BackwardReturn

SpecExpr == InitEngine("v1") /\ [][NextExpr]_vars

\* --------------------------------------------- every operation (v1)
\* every method of Variable that records a node, on the operands of the
\* repository's tests (backward.rs, 209-283) and on [6, 8], [2, 4]
NextOps ==
    \/ made < MaxOps /\ \E d \in
              { TensorScalar(0), TensorScalar(1), TensorScalar(3),
                TensorFromSlice(<<6, 8>>), TensorFromSlice(<<2, 4>>),
                Tensor(<<2, 1>>, <<1, 2>>), Tensor(<<2, 1, 2>>, <<1, 2, 3, 4>>) } :
              VarNew(d, TRUE)
    \/ made < MaxOps /\ \E t \in {"Add", "Sub", "Mul", "Div", "MatMul"}, x \in held, y \in held :
                              VarBinary(t, x, y)
    \/ made < MaxOps /\ \E t \in {"Neg", "Exp", "Ln", "Relu", "Sigmoid", "Tanh", "SumAll",
                                     "MeanAll", "Transpose"}, x \in held : VarUnary(t, x)
    \/ made < MaxOps /\ \E t \in {"Pow", "MulScalar", "AddScalar"}, x \in held, s \in {2, 0 - 1} :
                              VarScalar(t, x, s)
    \/ \E v \in held : BackwardCall(v)
    \/ BackwardStep
    \/ BackwardReturn

SpecOps == InitEngine("v1") /\ [][NextOps]_vars

\* ------------------------------------------------ matrix batches (v1)
\* a [1,N] bias row and [B,N] batches, combined by broadcasting arithmetic,
\* matrix products, activations and reductions on one graph
NextBatch ==
    \/ made < MaxBatch /\ \E d \in
              { Tensor(<<1, 2>>, <<1, 2>>),
                Tensor(<<2, 2>>, <<0 - 1, 2, 0 - 3, 4>>),
                Tensor(<<3, 2>>, <<1, 0, 2, 1, 0, 3>>) } :
              VarNew(d, TRUE)
    \/ made < MaxBatch /\ \E t \in {"Add", "Mul", "MatMul"}, x \in held, y \in held : VarBinary(t, x, y)
    \/ made < MaxBatch /\ \E t \in {"SumAll", "Relu", "Transpose"}, x \in held : VarUnary(t, x)
    \/ \E v \in held : BackwardCall(v)
    \/ BackwardStep
    \/ BackwardReturn

SpecBatch == InitEngine("v1") /\ [][NextBatch]_vars

\* ------------------------------------------- specification: the tapes
\* Either engine, with leaves of several shapes and dtypes, operations on
\* operands that do not fit, graph resets with handles kept across them (v1)
\* and Variables of several Graph instances (v2).  The v2 menu records
\* every Op of the v2 graph: transposed (column-major) tensors reach reshape,
\* the arithmetic and the matrix product, softmax runs on a constant tensor
\* and on an integer one.  The v1 leaves hold no zero, and the v1 menu has
\* no operation that makes one (sub is called on operands that do not
\* broadcast, where it fails like add, mul and div do), so a quotient always
\* has a value, also when a stale node id names another node after a reset.
\* the v2 leaves: the tensor and whether it is a param (TRUE) or an input
Tape2Leaves ==
    { <<T2("Float64", <<2, 1>>, <<1, 2>>), TRUE>>,
      <<T2("Float64", <<2, 2>>, <<1, 2, 3, 4>>), TRUE>>,
      <<T2("Float64", <<2, 2>>, <<1, 2, 3, 4>>), FALSE>>,
      <<T2("Float64", <<1, 2>>, <<1, 1>>), TRUE>>,
      <<T2("Int32", <<2, 2>>, <<1, 0, 0, 1>>), TRUE>>,
      <<T2("UInt8", <<2, 2>>, <<1, 1, 1, 1>>), TRUE>> }

Init == engine \in {"v1", "v2"} /\ InitState

\* the Graph instances are used in the order of their numbers
Next ==
    \/ made < MaxNodes /\ \E d \in
              { TensorFromSlice(<<2>>),
                TensorFull(<<1, 2>>, 3),
                TensorFull(<<2, 3>>, 1) }, rg \in BOOLEAN :
              VarNew(d, rg)
    \/ made < MaxNodes /\ \E x \in held, y \in held, tag \in {"Add", "Mul", "Div", "MatMul"} :
                              VarBinary(tag, x, y)
    \/ made < MaxNodes /\ \E x \in held, y \in held :
                              ~Forward("Sub", x.data, y.data, 0).ok /\ VarBinary("Sub", x, y)
    \/ made < MaxNodes /\ \E x \in held, tag \in {"SumAll", "MeanAll", "Transpose"} :
                              VarUnary(tag, x)
    \/ ResetGraph
    \/ \E loss \in held : BackwardCall(loss)
    \/ BackwardStep
    \/ BackwardReturn
    \/ made < MaxNodes2 /\ \E l \in Tape2Leaves, gid \in 1 .. MaxGraphs :
                               (IF gid = 1 THEN TRUE ELSE graphs[gid - 1] # <<>>)
                               /\ VarLeaf2(l[1], gid, l[2])
    \/ made < MaxNodes2 /\ \E x \in held2, y \in held2, tag \in {"Add", "MatMul"} :
                               VarBinary2(tag, x, y)
    \/ made < MaxNodes2 /\ \E x \in held2, shape \in {<<1, 2>>, <<2, 2>>, <<4>>} :
                              VarReshape2(x, shape)
    \/ made < MaxNodes2 /\ \E x \in held2, s \in {2} : VarScalarMul2(x, s)
    \/ made < MaxNodes2 /\ \E x \in held2 : VarTranspose2(x)
    \/ made < MaxNodes2 /\ \E x \in held2 : VarSoftmax2(x)
    \/ made < MaxNodes2 /\ \E x \in held2, y \in held2, tag \in {"Mul", "Div"}, rg \in BOOLEAN :
                               PushDirect2(tag, x, y, rg)
    \/ made < MaxNodes2 /\ \E x \in held2, tag \in {"Relu", "Exp", "Ln"}, rg \in BOOLEAN :
                               PushDirect2(tag, x, x, rg)
    \/ bw2.runs < MaxBackward2 /\ \E x \in held2, gid \in 1 .. MaxGraphs :
                                      BackwardCall2(gid, x.node_id)
    \/ BackwardStep2
    \/ BackwardReturn2

Spec == Init /\ [][Next]_vars

\* ------------------------------------------------- reference semantics
\* node j is the loss i itself or an operand, transitively, of i
RECURSIVE Reaches(_, _, _)
Reaches(g, i, j) ==
    \/ i = j
    \/ \E o \in Operands(Get(g, i).op) : o < i /\ InRange(g, o) /\ Reaches(g, o, j)

\* the value of a 1-element node
Val(g, i) == Get(g, i).value.data[1]

\* forward-mode derivative of scalar node i with respect to leaf l
RECURSIVE Deriv(_, _, _)
Deriv(g, i, l) ==
    LET op == Get(g, i).op
    IN  CASE op.tag = "Leaf" -> IF i = l THEN 1 ELSE 0
          [] op.tag = "Add" -> Deriv(g, op.a, l) + Deriv(g, op.b, l)
          [] op.tag = "Sub" -> Deriv(g, op.a, l) - Deriv(g, op.b, l)
          [] op.tag = "Mul" -> Deriv(g, op.a, l) * Val(g, op.b) + Val(g, op.a) * Deriv(g, op.b, l)
          [] op.tag = "Neg" -> 0 - Deriv(g, op.a, l)
          [] op.tag = "MulScalar" -> op.s * Deriv(g, op.a, l)
          [] op.tag = "AddScalar" -> Deriv(g, op.a, l)

\* the operand slots (consumer i, position k) through which node j is used
\* by a node that has a gradient
SlotsOf(g, gr, j) ==
    {<<i, k>> \in (DOMAIN gr) \X {1, 2} :
        k <= Len(LocalGrads(g, i, gr[i])) /\ LocalGrads(g, i, gr[i])[k].id = j}

RECURSIVE SumSlots(_, _, _)
SumSlots(g, gr, S) ==
    IF S = {} THEN 0
    ELSE LET p == CHOOSE q \in S : TRUE
         IN  LocalGrads(g, p[1], gr[p[1]])[p[2]].g.data[1] + SumSlots(g, gr, S \ {p})

\* C6: gradient accumulation sums and never overwrites: when backward has
\* returned, the entry of every node other than the loss is the sum of the
\* contributions of all operand slots that consume it (so x.mul(&x) leaves
\* 2x at x)
AccumulationSums ==
    bw.pc = "done" =>
        /\ \A j \in DOMAIN grads \ {bw.loss} :
              /\ SlotsOf(nodes, grads, j) # {}
              /\ grads[j].data[1] = SumSlots(nodes, grads, SlotsOf(nodes, grads, j))
        /\ LET op == Get(nodes, bw.loss).op
           IN  (op.tag = "Mul" /\ op.a = op.b) =>
                   grads[op.a].data[1] = 2 * Val(nodes, op.a)

\* a parameter x squared with x.mul(&x), after backward on the square
AccumulationSumsWitness ==
    /\ bw.pc = "done"
    /\ Get(nodes, bw.loss).op = Op2("Mul", 0, 0)
    /\ Get(nodes, 0).op.tag = "Leaf"
    /\ Val(nodes, 0) = 3
    /\ grads[0].data[1] = 6

\* C7: chain rule: when backward has returned, every leaf the loss
\* expression is built from holds the exact partial derivative of the loss
\* with respect to it
ChainRule ==
    bw.pc = "done" =>
        \A l \in Idx0(nodes) :
            (Get(nodes, l).op.tag = "Leaf" /\ Reaches(nodes, bw.loss, l)) =>
                /\ HasGrad(grads, l)
                /\ grads[l].data[1] = Deriv(nodes, bw.loss, l)

\* z = (x + c) * (x + c): the gradient at x is 2 (x + c)
ChainRuleWitness ==
    /\ bw.pc = "done"
    /\ Len(nodes) = 3
    /\ Get(nodes, 0).op.tag = "Leaf"
    /\ Get(nodes, 1).op = OpS("AddScalar", 0, 2)
    /\ Get(nodes, 2).op = Op2("Mul", 1, 1)
    /\ bw.loss = 2
    /\ grads[0].data[1] = 2 * (Val(nodes, 0) + 2)

\* ------------------------------------------------ claims about the tapes
\* the operand ids of every node of a node vector are below the node's id
OperandsBelowIn(ns) ==
    \A i \in Idx0(ns) : \A o \in Operands(Get(ns, i).op) : o < i

\* C1: in both engines every operand NodeId stored in a node's Op is
\* strictly less than the node's own id in the graph that holds the node
OperandsBelow ==
    /\ OperandsBelowIn(nodes)
    /\ \A gid \in 1 .. MaxGraphs : OperandsBelowIn(graphs[gid])

\* C2: ids are dense and sequential: a call that records a node makes the
\* graph exactly one node longer, returns the length before the call as the
\* new node's id and leaves the earlier nodes alone, and nodes[i].id = i
\* for every node of the graph
DenseIds ==
    [][ /\ \A i \in Idx0(nodes') : Get(nodes', i).id = i
        /\ (engine = "v1" /\ made' = made + 1) =>
              /\ Len(nodes') = Len(nodes) + 1
              /\ SubSeq(nodes', 1, Len(nodes)) = nodes
              /\ outcome'.ret = Len(nodes)
              /\ Get(nodes', Len(nodes)).id = Len(nodes) ]_vars

\* an operation recorded on the graph made after a reset, as its node 1
DenseIdsWitness ==
    /\ engine = "v1" /\ resets = 1
    /\ Len(nodes) = 2
    /\ outcome.kind = "ok" /\ outcome.ret = 1
    /\ Get(nodes, 1).op.tag = "Add"
    /\ Get(nodes, 1).id = 1

\* the call just made was a Variable operation (any method of the v1
\* Variable, any method of the v2 Variable) whose tensor computation failed
\* (as an error value or as a panic); a panic on a poisoned lock is no
\* failure of the computation
ComputationFailed(o) ==
    /\ o.call \in (IF engine = "v1"
                   THEN {"Add", "Sub", "Mul", "Div", "MatMul", "Neg", "Exp", "Ln", "Relu",
                         "Sigmoid", "Tanh", "SumAll", "MeanAll", "Transpose", "Pow",
                         "MulScalar", "AddScalar"}
                   ELSE {"Add", "MatMul", "Reshape", "ScalarMul", "Transpose", "Softmax"})
    /\ o.kind \in {"err", "panic"}
    /\ o.err # "PoisonError"

\* C3: a Variable operation whose tensor computation fails (add, sub, mul,
\* div on shapes without a broadcast, matmul on inner dimensions that differ,
\* t on rank < 2, and in v2 also a dtype mismatch, reshape to another element
\* count and softmax of an integer tensor) leaves every graph exactly as it
\* was before the call: no node is added and none is changed
FailedOpLeavesGraph ==
    [][ ComputationFailed(outcome') => (nodes' = nodes /\ graphs' = graphs) ]_vars

\* add of a [2,3] and a [1,2] Variable has failed on a graph of two nodes
FailedOpLeavesGraphWitness ==
    /\ engine = "v1"
    /\ outcome.call = "Add" /\ outcome.kind = "panic"
    /\ Len(nodes) = 2
    /\ \E x \in held, y \in held :
          x.data.shape = <<2, 3>> /\ y.data.shape = <<1, 2>> /\ ~TAdd(x.data, y.data).ok

\* C4: a Variable operation whose tensor computation fails hands the tensor
\* error to its caller as the outcome of the call
ErrorHandedBack ==
    ComputationFailed(outcome) =>
        /\ outcome.kind = "err"
        /\ outcome.err \in {"ShapeMismatch", "DimensionMismatch", "TypeMismatch",
                            "InvalidOperation", "BroadcastError"}

\* C5: the table returned by backward(loss) holds at loss.node_id a tensor
\* of ones of the loss node's recorded shape, whatever the traversal did
SeedIsOnes ==
    bw.pc = "done" =>
        /\ HasGrad(grads, bw.loss)
        /\ grads[bw.loss] = TensorOnes(Get(nodes, bw.loss).shape)

\* C8: every entry of the table returned by backward has the shape recorded
\* for its node (stated for the calls whose seed has the loss node's shape,
\* and for the entries other than the seed)
EntryShapes ==
    (bw.pc = "done" /\ grads[bw.loss].shape = Get(nodes, bw.loss).shape) =>
        \A id \in DOMAIN grads \ {bw.loss} :
            InRange(nodes, id) => grads[id].shape = Get(nodes, id).shape

\* C10: backward is all-or-nothing: a v1 call that fails returns no table,
\* and a v2 call that fails with an error leaves the graph's nodes, their
\* gradients included, as the call found them (stated for the runs that
\* keep all their Variables on that one graph)
AllOrNothing ==
    /\ bw.pc = "panicked" => grads = NoGrads
    /\ ( /\ bw2.pc = "failed" /\ outcome.call = "backward" /\ outcome.kind = "err"
         /\ \A x \in held2 : x.graph = bw2.graph ) =>
           graphs[bw2.graph] = bw2.pre

\* --------------------------------------------- claims about the batches
\* node s adds a [1,N] bias and a [B,N] batch (B > 1), in either order
BiasOf(g, s) ==
    LET op == Get(g, s).op
        wide(i) == Len(Get(g, i).shape) = 2 /\ Get(g, i).shape[1] > 1
        flat(i) == Len(Get(g, i).shape) = 2 /\ Get(g, i).shape[1] = 1
    IN  IF op.tag # "Add" THEN NoId
        ELSE IF flat(op.a) /\ wide(op.b) /\ Get(g, op.a).shape[2] = Get(g, op.b).shape[2]
             THEN op.a
        ELSE IF flat(op.b) /\ wide(op.a) /\ Get(g, op.a).shape[2] = Get(g, op.b).shape[2]
             THEN op.b
        ELSE NoId

\* the batch operand of node s is itself computed from the bias
BatchUsesBias(g, s) ==
    LET bias == BiasOf(g, s)
        op == Get(g, s).op
    IN  Reaches(g, IF op.a = bias THEN op.b ELSE op.a, bias)

\* C9: for a [1,N] bias added to a [B,N] batch (B > 1) and summed, backward
\* returns at the bias a gradient of shape [1,N] whose every element is B:
\* the [B,N] gradient of the sum, summed over the batch axis (the batch
\* being a Variable that is not computed from the bias)
BiasGradient ==
    bw.pc = "done" =>
        LET lop == Get(nodes, bw.loss).op
        IN  (lop.tag = "SumAll" /\ BiasOf(nodes, lop.a) # NoId /\ ~BatchUsesBias(nodes, lop.a)) =>
                LET bias == BiasOf(nodes, lop.a)
                    sop == Get(nodes, lop.a).op
                    batch == IF sop.a = bias THEN sop.b ELSE sop.a
                    B == Get(nodes, batch).shape[1]
                    N == Get(nodes, batch).shape[2]
                    summed == TSumAxis(grads[lop.a], 0)
                IN  /\ HasGrad(grads, bias)
                    /\ grads[bias].shape = <<1, N>>
                    /\ \A k \in 1 .. N : grads[bias].data[k] = B
                    /\ grads[lop.a].shape = <<B, N>>
                    /\ summed.ok /\ grads[bias] = TUnsqueeze(summed.t, 0).t

\* a [1,2] bias leaf plus a [3,2] batch leaf, summed, after backward
BiasGradientWitness ==
    /\ bw.pc = "done"
    /\ Len(nodes) = 4
    /\ Get(nodes, 0).shape = <<1, 2>> /\ Get(nodes, 0).op.tag = "Leaf"
    /\ Get(nodes, 1).shape = <<3, 2>> /\ Get(nodes, 1).op.tag = "Leaf"
    /\ Get(nodes, 2).op = Op2("Add", 0, 1)
    /\ Get(nodes, 3).op = Op1("SumAll", 2)
    /\ bw.loss = 3
    /\ grads[0] = Tensor(<<1, 2>>, <<3, 3>>)

\* ------------------------------------------------------------------ C11
\* the calls of reduce_broadcast the loop of backward is about to make at
\* the index it stands at: the incoming gradient and the target shape
ReduceCalls ==
    IF engine = "v1" /\ bw.pc = "loop" /\ bw.idx >= 0 /\ HasGrad(grads, bw.idx)
       /\ \A o \in Operands(Get(nodes, bw.idx).op) : InRange(nodes, o)
    THEN LET cs == LocalGrads(nodes, bw.idx, grads[bw.idx])
         IN  {[grad |-> cs[k].g, target |-> Get(nodes, cs[k].id).shape] :
                 k \in {j \in DOMAIN cs : cs[j].ok}}
    ELSE {}

\* summing the leading axes and the size-1 target axes leaves a tensor that
\* is not of the target shape; neither the incoming gradient nor the summed
\* tensor has the element count of the target
CannotReduce(grad, target) ==
    /\ grad.shape # target
    /\ ~IsScalarShape(target)
    /\ TNumel(grad) # ShapeNumel(target)
    /\ LET gn == Len(grad.shape)
           tn == Len(target)
           lead == ReduceLeading(TOk(grad), IF gn > tn THEN gn - tn ELSE 0)
           axes == IF lead.ok THEN ReduceAxes(lead, lead.t.shape, target, 0) ELSE lead
       IN  axes.ok /\ axes.t.shape # target /\ TNumel(axes.t) # ShapeNumel(target)

\* C11: when reduce_broadcast cannot bring the incoming gradient to the
\* target shape by summing and the element counts differ, it fails: it
\* returns no tensor
ReductionFails ==
    \A c \in ReduceCalls :
        CannotReduce(c.grad, c.target) => ~ReduceBroadcast(c.grad, c.target).ok

\* ------------------------------------------------------------------ C12
\* every Variable the caller holds was issued before the latest reset_graph
AllStale == held # {} /\ \A h \in held : h.epoch < resets

\* the step is a call that takes a Variable: an operation or backward
UsesVariable == outcome'.call \notin {"new", "reset", "none"}

\* C12: a call that uses a NodeId issued before the latest reset_graph
\* panics: when all the Variables held are of an earlier graph, every
\* operation and every backward call ends in a panic
StaleUsePanics ==
    [][(engine = "v1" /\ Quiet /\ AllStale /\ UsesVariable) => outcome'.kind = "panic"]_vars

\* ------------------------------------------------------------------ C13
\* C13: NodeIds are never reused: two Variables issued by different graph
\* instances (one before a reset_graph, one after it) never carry the same
\* NodeId
IdsNeverReused ==
    \A h1 \in held, h2 \in held : h1.epoch # h2.epoch => h1.node_id # h2.node_id

\* ------------------------------------------------------------------ C14
\* the Variables issued by the current graph (since the latest reset_graph)
Current == {h \in held : h.epoch = resets}

\* C14: in every state of the graph a Variable was recorded on, while
\* operations are recorded and backward runs, the Variable's data equals
\* the value stored in the node its node_id names
DataIsNodeValue ==
    engine = "v1" =>
        \A h \in Current :
            InRange(nodes, h.node_id) /\ Get(nodes, h.node_id).value = h.data

\* a Variable returned by an operation, with an operation recorded after it
\* and a backward call returned since
DataIsNodeValueWitness ==
    /\ engine = "v1" /\ bw.pc = "done"
    /\ \E h \in Current :
          /\ h.node_id + 1 < Len(nodes)
          /\ Get(nodes, h.node_id).op.tag # "Leaf"
          /\ Get(nodes, Len(nodes) - 1).op.tag # "Leaf"
          /\ Get(nodes, h.node_id).value = h.data

\* ------------------------------------------------------------------ C15
\* C15: between two resets the tape is append-only: no step makes it
\* shorter, every node already recorded keeps its id, op, shape, value and
\* requires_grad, and the steps of backward leave the whole graph unchanged
TapeAppendOnly ==
    [][(engine = "v1" /\ resets' = resets) =>
           /\ Len(nodes') >= Len(nodes)
           /\ SubSeq(nodes', 1, Len(nodes)) = nodes
           /\ outcome'.call = "backward" => nodes' = nodes]_vars

\* a backward call has returned on a graph that holds a leaf and two
\* operations recorded one after the other
TapeAppendOnlyWitness ==
    /\ engine = "v1" /\ bw.pc = "done" /\ Len(nodes) = 3
    /\ Get(nodes, 1).op.tag # "Leaf" /\ Get(nodes, 2).op.tag # "Leaf"
    /\ DOMAIN grads = {0, 1, 2}

\* ------------------------------------------------------------------ C16
\* C16: the table backward returns has entries only for nodes that require
\* grad (the entry of the loss itself, which is the seed, set aside): a leaf
\* made with Variable::input has no entry even on a path to the loss
NoGradForInputs ==
    (engine = "v1" /\ bw.pc = "done" /\ resets = 0) =>
        \A id \in DOMAIN grads :
            id # bw.loss => Get(nodes, id).requires_grad

\* ------------------------------------------------------------------ C17
\* node i of node vector g is derived, its operands lie below it, and its
\* requires_grad flag is the OR of its operands' flags
FlagIsOrOfOperands(g, i) ==
    LET ops == Operands(Get(g, i).op)
    IN  (ops # {} /\ \A o \in ops : o >= 0 /\ o < i) =>
            (Get(g, i).requires_grad <=> \E o \in ops : Get(g, o).requires_grad)

\* C17: the requires_grad flag recorded for a derived node is the logical OR
\* of its operands' flags (on a v1 graph that was never reset, and on v2
\* graphs whose Variables were only combined with Variables of the same
\* graph)
DerivedFlagIsOr ==
    /\ (engine = "v1" /\ resets = 0) =>
           \A i \in 0 .. Len(nodes) - 1 : FlagIsOrOfOperands(nodes, i)
    /\ (engine = "v2" /\ \A x \in held2 : x.graph = 1) =>
           \A i \in 0 .. Len(graphs[1]) - 1 : FlagIsOrOfOperands(graphs[1], i)

\* ------------------------------------------------------------------ C18
\* the loop of backward from index idx down to 0, as a function of the
\* graph and the table so far
RECURSIVE RunLoop(_, _, _)
RunLoop(g, gr, idx) ==
    IF idx < 0 THEN [ok |-> TRUE, gr |-> gr]
    ELSE LET r == LoopBody(g, gr, idx)
         IN  IF r.ok THEN RunLoop(g, r.gr, idx - 1) ELSE r

\* backward as a function of the graph and the loss id alone: the seed, then
\* the loop from n - 1; ok = FALSE is a panic
BackwardOf(g, loss) ==
    IF ~InRange(g, loss) THEN [ok |-> FALSE, gr |-> NoGrads]
    ELSE RunLoop(g, (loss :> Seed(Get(g, loss).shape)), Len(g) - 1)

\* C18: backward is deterministic: the table a call returns is a function
\* of the recorded graph and the loss alone, the same keys and tensors
\* whatever calls came before (an earlier backward on the same loss, a
\* graph recorded earlier and reset), and a call panics exactly when that
\* function does
BackwardDeterministic ==
    /\ (engine = "v1" /\ bw.pc = "done") =>
           /\ BackwardOf(nodes, bw.loss).ok
           /\ grads = BackwardOf(nodes, bw.loss).gr
    /\ (engine = "v1" /\ bw.pc = "panicked" /\ bw.loss # NoId) =>
           ~BackwardOf(nodes, bw.loss).ok

\* a returned table with three entries on a graph recorded after a reset
BackwardDeterministicWitness ==
    /\ engine = "v1" /\ bw.pc = "done" /\ resets = 1
    /\ Cardinality(DOMAIN grads) = 3
    /\ grads = BackwardOf(nodes, bw.loss).gr

\* ------------------------------------------------------------------ C19
\* node r is a relu whose gradient is known and whose operand is used by
\* no other visited node and is not the loss
ReluSoleUse(r) ==
    /\ HasGrad(grads, r)
    /\ Get(nodes, r).op.tag = "Relu"
    /\ Get(nodes, r).op.a # bw.loss
    /\ SlotsOf(nodes, grads, Get(nodes, r).op.a) = {<<r, 1>>}

\* the test's graph: x = [[-1, 2], [-3, 4]], y = x.relu(), loss = y.sum()
ReluTestGraph ==
    /\ Len(nodes) = 3 /\ bw.loss = 2
    /\ Get(nodes, 0).op.tag = "Leaf"
    /\ Get(nodes, 0).value = Tensor(<<2, 2>>, <<0 - 1, 2, 0 - 3, 4>>)
    /\ Get(nodes, 1).op = Op1("Relu", 0)
    /\ Get(nodes, 2).op = Op1("SumAll", 1)

\* C19: backward through relu passes the incoming gradient where the
\* operand's forward value is > 0 and exactly 0 elsewhere, also where the
\* value is 0; for x = [-1, 2, -3, 4], relu and sum the gradient at x is
\* [0, 1, 0, 1]
ReluGradient ==
    (engine = "v1" /\ bw.pc = "done") =>
        /\ \A r \in Idx0(nodes) :
              ReluSoleUse(r) =>
                  LET a == Get(nodes, r).op.a
                      x == Get(nodes, a).value
                  IN  /\ HasGrad(grads, a)
                      /\ grads[a].shape = x.shape
                      /\ \A k \in DOMAIN x.data :
                            grads[a].data[k] = IF x.data[k] > 0 THEN grads[r].data[k] ELSE 0
        /\ ReluTestGraph => grads[0].data = <<0, 1, 0, 1>>

\* a relu over a value with an element equal to 0 and positive elements,
\* whose operand has received its gradient from a returned backward call
ReluGradientWitness ==
    /\ engine = "v1" /\ bw.pc = "done"
    /\ \E r \in Idx0(nodes) :
          /\ ReluSoleUse(r)
          /\ \E k \in DOMAIN Get(nodes, Get(nodes, r).op.a).value.data :
                /\ Get(nodes, Get(nodes, r).op.a).value.data[k] = 0
                /\ grads[r].data[k] # 0

\* ------------------------------------------------------------------ C20
\* element [i][j] (from 0) of a matrix
Cell(t, i, j) == t.data[i * t.shape[2] + j + 1]

\* the matrix product written out: g * transpose(B) and transpose(A) * g
GradTimesBt(g, B, i, p) == SeqSum([j \in 1 .. B.shape[2] |-> Cell(g, i, j - 1) * Cell(B, p, j - 1)])

AtTimesGrad(A, g, p, j) == SeqSum([i \in 1 .. A.shape[1] |-> Cell(A, i - 1, p) * Cell(g, i - 1, j)])

\* node c is a matmul of two different 2-D nodes whose gradient is known;
\* neither operand has another use on the way to the loss
MatMulSoleUse(c) ==
    /\ HasGrad(grads, c)
    /\ Get(nodes, c).op.tag = "MatMul"
    /\ Get(nodes, c).op.a # Get(nodes, c).op.b
    /\ SlotsOf(nodes, grads, Get(nodes, c).op.a) = {<<c, 1>>}
    /\ SlotsOf(nodes, grads, Get(nodes, c).op.b) = {<<c, 2>>}

\* C20: for C = A @ B with A of shape [m,k], B of shape [k,n] and incoming
\* gradient g of shape [m,n], backward accumulates g * transpose(B), of
\* shape [m,k], into A and transpose(A) * g, of shape [k,n], into B; when
\* the loss is sum(C), dA[i][p] is the sum of row p of B and dB[p][j] is the
\* sum of column p of A
MatMulAdjoint ==
    (engine = "v1" /\ bw.pc = "done") =>
        \A c \in Idx0(nodes) :
            MatMulSoleUse(c) =>
                LET a == Get(nodes, c).op.a
                    b == Get(nodes, c).op.b
                    A == Get(nodes, a).value
                    B == Get(nodes, b).value
                    g == grads[c]
                    m == A.shape[1]
                    k == A.shape[2]
                    n == B.shape[2]
                IN  /\ g.shape = <<m, n>>
                    /\ HasGrad(grads, a) /\ grads[a].shape = <<m, k>>
                    /\ HasGrad(grads, b) /\ grads[b].shape = <<k, n>>
                    /\ \A i \in 0 .. m - 1, p \in 0 .. k - 1 :
                          Cell(grads[a], i, p) = GradTimesBt(g, B, i, p)
                    /\ \A p \in 0 .. k - 1, j \in 0 .. n - 1 :
                          Cell(grads[b], p, j) = AtTimesGrad(A, g, p, j)
                    /\ (Get(nodes, bw.loss).op = Op1("SumAll", c)) =>
                          /\ \A i \in 0 .. m - 1, p \in 0 .. k - 1 :
                                Cell(grads[a], i, p) = SeqSum([j \in 1 .. n |-> Cell(B, p, j - 1)])
                          /\ \A p \in 0 .. k - 1, j \in 0 .. n - 1 :
                                Cell(grads[b], p, j) = SeqSum([i \in 1 .. m |-> Cell(A, i - 1, p)])

\* loss = sum(A @ B) with A of shape [3,2] and B of shape [2,2], the two
\* gradients returned
MatMulAdjointWitness ==
    /\ engine = "v1" /\ bw.pc = "done"
    /\ \E c \in Idx0(nodes) :
          /\ MatMulSoleUse(c)
          /\ Get(nodes, bw.loss).op = Op1("SumAll", c)
          /\ Get(nodes, Get(nodes, c).op.a).shape = <<3, 2>>
          /\ Get(nodes, Get(nodes, c).op.b).shape = <<2, 2>>
          /\ grads[Get(nodes, c).op.a].shape = <<3, 2>>

\* ------------------------------------------------------ threads (spec)
\* MaxThreads threads, each with its own CURRENT_GRAPH and IS_GRAD_ENABLED,
\* sharing one v2 Graph
NextThreads ==
    \/ \E t \in Threads, d \in {TensorScalar(1), TensorScalar(2)} : ThreadNew(t, d, TRUE)
    \/ \E t \in Threads : ThreadLen(t)
    \/ \E t \in Threads : ThreadReset(t)
    \/ \E t \in Threads, rg \in BOOLEAN : PushLock(t, OpLeaf, rg)
    \/ \E t \in Threads : PushLock(t, Op2("Add", 0, MaxShared), TRUE)
    \/ \E t \in Threads : PushReturn(t)
    \/ \E t \in Threads : \E op \in SharedMethods(t) : MethodCall(t, op)
    \/ \E t \in Threads : MethodSelf(t)
    \/ \E t \in Threads : MethodRhsLock(t)
    \/ \E t \in Threads : MethodRhs(t)
    \/ \E t \in Threads : MethodPushLock(t)
    \/ \E t \in Threads, id \in 0 .. MaxShared - 1 : GetLock(t, id)
    \/ \E t \in Threads : GetReturn(t)
    \/ \E t \in Threads : \E root \in tls[t].got : BwLock(t, root)
    \/ \E t \in Threads : BwStep(t)
    \/ \E t \in Threads : BwReturn(t)

SpecThreads == InitEngine("threads") /\ [][NextThreads]_vars

\* ------------------------------------------------------------------ C21
\* C21: each thread has its own current graph: a call made by one thread
\* (a recording, a len(), a reset_graph) leaves the graph of every other
\* thread as it was, and a recording gets the id Len of the caller's own
\* graph, whatever the other threads have recorded
ThreadGraphsApart ==
    [][\A t \in Threads :
          tls'[t].calls # tls[t].calls =>
              /\ \A u \in Threads \ {t} : tls'[u].graph = tls[u].graph
              /\ Len(tls'[t].graph) = Len(tls[t].graph) + 1 =>
                    /\ tls'[t].ret = Len(tls[t].graph)
                    /\ Get(tls'[t].graph, Len(tls[t].graph)).id = Len(tls[t].graph)]_vars

\* two threads hold graphs of different lengths after one of them has reset
\* its own: both have issued id 0
ThreadGraphsApartWitness ==
    /\ engine = "threads"
    /\ Len(tls[1].graph) = 2 /\ Len(tls[2].graph) = 1
    /\ tls[2].calls = 3 /\ tls[1].calls = 2

\* ------------------------------------------------------------------ C22
\* the threads inside push_node or backward on the shared Graph (between
\* the grant of the write lock and the drop of the guard), and those inside
\* get_node
Writing == {t \in Threads : tls[t].pc \in {"push", "backward"}}

Reading == {t \in Threads : tls[t].pc \in {"get", "var-self", "var-rhs"}}

\* C22: on a Graph shared between threads writers are serialized: at most
\* one push_node or backward is inside its write at a time and no get_node
\* is inside its read meanwhile; so under every interleaving the ids
\* push_node has returned are distinct, they are exactly 0 .. len() - 1,
\* and nodes[i].id = i
WritersSerialized ==
    engine = "threads" =>
        /\ Cardinality(Writing) <= 1
        /\ Writing # {} => Reading = {}
        /\ \A i \in Idx0(graphs[1]) : Get(graphs[1], i).id = i
        /\ \A t \in Threads, u \in Threads : t # u => tls[t].got \cap tls[u].got = {}
        /\ UNION {tls[t].got : t \in Threads} = Idx0(graphs[1])

\* the two threads have pushed in turns (ids 0 and 2 to thread 1, id 1 to
\* thread 2), a backward has left a gradient in node 0, and thread 2 is
\* inside a get_node
WritersSerializedWitness ==
    /\ engine = "threads"
    /\ tls[1].got = {0, 2} /\ tls[2].got = {1}
    /\ Get(graphs[1], 0).grad.some
    /\ tls[2].pc = "get"

\* ---------------------------------------------------- with_no_grad (spec)
\* one thread records on v2 graphs, inside and outside with_no_grad calls
NextNoGrad ==
    \/ NoGradEnter(Main)
    \/ NoGradExit(Main)
    \/ NoGradUnwind(Main)
    \/ made < MaxNodes2 /\ \E l \in Tape2Leaves : VarLeaf2(l[1], 1, l[2])
    \/ made < MaxNodes2 /\ \E x \in held2, y \in held2, tag \in {"Add", "MatMul"} :
                               VarBinary2(tag, x, y)
    \/ made < MaxNodes2 /\ \E x \in held2, s \in {2} : VarScalarMul2(x, s)

SpecNoGrad == InitEngine("v2") /\ [][NextNoGrad]_vars

\* ------------------------------------------------------------------ C23
\* C23: operations executed inside with_no_grad do not record: while a
\* closure of with_no_grad runs on the thread, no step appends a node to
\* any graph
NoGradRecordsNothing ==
    [][(engine = "v2" /\ Nesting(Main) > 0 /\ tls'[Main].saved = tls[Main].saved) =>
           \A gid \in DOMAIN graphs : Len(graphs'[gid]) = Len(graphs[gid])]_vars

\* ------------------------------------------------------------------ C24
\* C24: is_grad_enabled() is true by default, false as long as a closure of
\* with_no_grad runs (so, with nested calls, until the outermost returns),
\* and when a with_no_grad call returns it is what it was before that call
NoGradRestores ==
    /\ \A t \in Threads : IsGradEnabled(t)
    /\ [](engine = "v2" => (Nesting(Main) > 0 => ~IsGradEnabled(Main)))
    /\ [][(engine = "v2" /\ outcome'.call = "with_no_grad" /\ outcome'.kind = "ok"
              /\ Nesting(Main) > 0 /\ tls'[Main] # tls[Main]) =>
             /\ IsGradEnabled(Main)' = tls[Main].saved[Nesting(Main)]
             /\ Nesting(Main)' = 0 =>
                   IsGradEnabled(Main)' = tls[Main].saved[1]]_vars

\* the inner of two nested with_no_grad calls has returned after a node was
\* recorded: the outer closure still runs and tracking is still off
NoGradRestoresWitness ==
    /\ engine = "v2" /\ outcome.call = "with_no_grad" /\ outcome.kind = "ok"
    /\ Nesting(Main) = 1 /\ tls[Main].saved = <<TRUE>> /\ ~IsGradEnabled(Main)
    /\ made >= 1

\* ------------------------------------------------------------------ C25
\* the scalar expressions, with a backward call that is running going on to
\* its next iteration and to its return (the loop is straight-line code of
\* the calling thread)
SpecFair == SpecExpr /\ WF_vars(BackwardStep) /\ WF_vars(BackwardReturn)

\* C25: backward visits the node ids in strictly descending order, each at
\* most once, from the highest id n - 1 down to 0, and terminates: the index
\* never leaves -1 .. n - 1, a call returns right after id 0 was processed,
\* and every running call ends (returned, or panicked in a rule)
VisitsDescending ==
    /\ [][engine = "v1" =>
              /\ (bw.pc # "loop" /\ bw'.pc = "loop") =>
                    bw'.n = Len(nodes) /\ bw'.idx = Len(nodes) - 1
              /\ (bw.pc = "loop" /\ bw'.pc = "loop") =>
                    bw.idx >= 0 /\ bw'.idx = bw.idx - 1 /\ bw'.n = bw.n
              /\ (bw.pc = "loop" /\ bw'.pc = "done") => bw.idx = 0 - 1]_vars
    /\ [](bw.pc = "loop" => (bw.idx >= 0 - 1 /\ bw.idx <= bw.n - 1 /\ bw.n = Len(nodes)))
    /\ (bw.pc = "loop") ~> (bw.pc \in {"done", "panicked"})

\* a call on a graph of three nodes has gone through ids 2, 1, 0 and is
\* about to return
VisitsDescendingWitness ==
    /\ engine = "v1" /\ bw.pc = "loop" /\ bw.n = 3 /\ bw.idx = 0 - 1
    /\ DOMAIN grads = {0, 1, 2}

\* --------------------------------------------------- reused tapes (v1)
\* sums of 0-d parameters recorded before and after a reset_graph, with
\* Variables of the old tape still in the caller's hands
NextReuse ==
    \/ made < MaxReuse /\ \E d \in {TensorScalar(2)} : VarNew(d, TRUE)
    \/ made < MaxReuse /\ \E x \in held, y \in held : VarBinary("Add", x, y)
    \/ ResetGraph
    \/ \E loss \in held : BackwardCall(loss)
    \/ BackwardStep
    \/ BackwardReturn

SpecReuse == InitEngine("v1") /\ [][NextReuse]_vars

\* ------------------------------------------------------------- C26
\* the ids that can be reached from the ids of S through operand edges
RECURSIVE OperandClosure(_, _)
OperandClosure(g, S) ==
    LET next == S \cup {o \in Idx0(g) : \E i \in S : o \in Operands(Get(g, i).op)}
    IN  IF next = S THEN S ELSE OperandClosure(g, next)

\* C26: the table returned by backward(loss) has an entry for a node if and
\* only if the node is the loss or can be reached from the loss through
\* operand edges; no node with an id above the loss's has an entry
EntriesAreReachable ==
    (engine = "v1" /\ bw.pc = "done") =>
        /\ DOMAIN grads = OperandClosure(nodes, {bw.loss})
        /\ \A j \in DOMAIN grads : j <= bw.loss

\* ------------------------------------------------------------- C27
\* C27: when backward dispatches the rule of node i, the entry of i holds
\* every contribution it will ever receive: an iteration of the loop changes
\* no entry of the node it visits or of a node visited before
EntriesFinal ==
    [][(engine = "v1" /\ bw.pc = "loop" /\ bw'.pc = "loop") =>
          \A j \in Idx0(nodes) :
              j >= bw.idx =>
                  /\ HasGrad(grads', j) <=> HasGrad(grads, j)
                  /\ HasGrad(grads, j) => grads'[j] = grads[j]]_vars

\* ------------------------------------------ repeated backward calls (v2)
\* a [2,2] input, a [2,2] weight and a [1,2] bias on one Graph, combined as
\* Linear::forward combines them (matmul, then the broadcasting add), with
\* Graph::backward called more than once
NextTrain ==
    \/ made < MaxTrain /\ \E l \in
              { <<T2("Float64", <<2, 2>>, <<1, 2, 3, 4>>), FALSE>>,
                <<T2("Float64", <<2, 2>>, <<1, 1, 1, 1>>), TRUE>>,
                <<T2("Float64", <<1, 2>>, <<1, 1>>), TRUE>> } :
              VarLeaf2(l[1], 1, l[2])
    \/ made < MaxTrain /\ \E x \in held2, y \in held2, tag \in {"Add", "MatMul"} :
                              VarBinary2(tag, x, y)
    \/ bw2.runs < MaxRuns2 /\ \E x \in held2 : BackwardCall2(1, x.node_id)
    \/ BackwardStep2
    \/ BackwardReturn2

SpecTrain == InitEngine("v2") /\ [][NextTrain]_vars

\* the loop of Graph::backward from index i down to 0
RECURSIVE RunLoop2(_, _)
RunLoop2(ns, i) ==
    IF i < 0 THEN N2Ok(ns)
    ELSE LET r == LoopBody2(ns, i)
         IN  IF r.st = "ok" THEN RunLoop2(r.ns, i - 1) ELSE r

\* the node vector as push_node left it: no node holds a gradient
RECURSIVE Fresh(_)
Fresh(ns) ==
    IF ns = <<>> THEN <<>>
    ELSE <<[Head(ns) EXCEPT !.grad = NoGrad2]>> \o Fresh(Tail(ns))

\* Graph::backward(root) on a fresh recording of the same nodes
BackwardFresh(ns, root) == RunLoop2(SetGrad(Fresh(ns), root, Seed2(ns, root)), root)

\* ------------------------------------------------------------- C28
\* C28: the gradients Graph::backward(root) leaves are those of that call
\* alone: whatever backward calls came before on the graph, every node's
\* grad equals what one backward(root) on a fresh recording leaves
GradsOfThisCall ==
    (engine = "v2" /\ bw2.pc = "done") =>
        /\ BackwardFresh(graphs[bw2.graph], bw2.root).st = "ok"
        /\ BackwardFresh(graphs[bw2.graph], bw2.root).ns = graphs[bw2.graph]

\* ------------------------------------------------------------- C29
\* C29: a v2 node whose requires_grad is false never holds a gradient:
\* between calls, after any pushes and backward calls, its grad is None
NoGradWithoutRequiresGrad ==
    (engine = "v2" /\ Quiet2) =>
        \A gid \in 1 .. MaxGraphs : \A k \in Idx0(graphs[gid]) :
            ~Get(graphs[gid], k).requires_grad => ~Get(graphs[gid], k).grad.some

\* C29 as amended: a node whose requires_grad is false holds a gradient only
\* as the seed of a backward call of which it was the root: no step gives
\* such a node a grad except the start of Graph::backward(root) on it
OnlyRootsGetGrad ==
    [][engine = "v2" =>
          \A gid \in 1 .. MaxGraphs : \A k \in Idx0(graphs'[gid]) :
              (~Get(graphs'[gid], k).requires_grad /\ Get(graphs'[gid], k).grad.some) =>
                  \/ k \in Idx0(graphs[gid]) /\ Get(graphs[gid], k).grad.some
                  \/ /\ bw2.pc # "loop" /\ bw2'.pc = "loop"
                     /\ bw2'.graph = gid /\ bw2'.root = k]_vars

\* a backward call has returned whose root is a product or sum of an input
\* and a param: the param holds a gradient, the input none
OnlyRootsGetGradWitness ==
    /\ engine = "v2" /\ bw2.pc = "done"
    /\ LET ns == graphs[bw2.graph]
           root == Get(ns, bw2.root)
       IN  /\ root.op.tag \in {"Add", "MatMul"}
           /\ root.requires_grad
           /\ ~Get(ns, root.op.a).requires_grad /\ ~Get(ns, root.op.a).grad.some
           /\ Get(ns, root.op.b).requires_grad /\ Get(ns, root.op.b).grad.some

\* ------------------------------------------------------------- C30
\* C30: whenever Graph::backward has set a node's grad, the shape of the
\* grad is the shape of the node's data; the [1,N] bias of a Linear layer
\* applied to a [B,N] activation ends with a [1,N] gradient
GradShapeIsDataShape ==
    engine = "v2" =>
        \A gid \in 1 .. MaxGraphs : \A k \in Idx0(graphs[gid]) :
            Get(graphs[gid], k).grad.some =>
                Get(graphs[gid], k).grad.t.shape = Get(graphs[gid], k).data.shape


============================================================================
